---- MODULE Spec2Model ----
(***************************************************************************)
(* KYC/KYB submission lifecycle of the users app: the DocumentType         *)
(* catalog, KYCSubmission / KYCDocument records, the post_save signals     *)
(* that maintain User.is_kyc_verified, the REST handlers of                *)
(* KYCSubmissionViewSet and BusinessProfileViewSet, the Celery task        *)
(* verify_kyc_submission and the admin bulk actions.                       *)
(***************************************************************************)
EXTENDS Integers, Sequences, FiniteSets, TLC

VARIABLES
    catalog,          \* DocumentType table: name -> row
    submissions,      \* KYCSubmission table: sequence, id = index; documents nested
    is_kyc_verified,  \* User.is_kyc_verified, per user
    businesses,       \* BusinessProfile table: the businesses that exist
    owners,           \* BusinessOwner table: business -> set of owner rows
    tasks,            \* verify_kyc_submission messages held by the task queue
    tokens,           \* EmailVerificationToken and PasswordResetToken rows, by token string
    now,              \* timezone.now(), in hours
    is_email_verified,\* User.is_email_verified, per user
    password,         \* User.password, per user
    requests,         \* the request or task each worker is in the middle of
    kyc_documents     \* the KYCDocument rows with their file metadata

vars == <<catalog, submissions, is_kyc_verified, businesses, owners, tasks,
          tokens, now, is_email_verified, password, requests, kyc_documents>>

\* the tables of the KYC workflow
kyc_vars == <<catalog, submissions, is_kyc_verified, businesses, owners, tasks>>

\* the token tables, the clock and the user fields the tokens unlock
token_vars == <<tokens, now, is_email_verified, password>>

----------------------------------------------------------------------------
(* Bounds of the model *)

MaxSubmissions == 2

----------------------------------------------------------------------------
(* Fixtures: users, roles, profiles, businesses, document types *)

NULL == "null"

\* a1 is a staff user (hence is_admin), u1 and u2 are ordinary users
Users == {"a1", "u1", "u2"}
Roles == {"Admin", "Seller", "Buyer"}
Businesses == {"b1"}
DocTypes == {"PassportID", "SellerLicense"}

\* the catalog entries whose flags the admin edits in the model
EditableDocTypes == {"SellerLicense"}

\* User.is_staff (AbstractUser)
UserIsStaff == [u \in Users |-> u = "a1"]

\* User.roles
UserRoles == [u \in Users |->
    CASE u = "a1" -> {}
      [] OTHER    -> {"Buyer"}]

\* Profile.account_type of user.profile
ProfileAccountType == [u \in Users |->
    CASE u = "a1" -> "individual"
      [] OTHER    -> "business"]

\* DocumentType.applicable_to of each catalog entry
DocTypeApplicableTo == [t \in DocTypes |->
    CASE t = "PassportID" -> "individual"
      [] OTHER            -> "both"]

\* DocumentType.max_file_size_mb: the field default, in megabytes
DefaultMaxFileSizeMb == 10

\* DocumentType.required_roles of each catalog entry
DocTypeRequiredRoles == [t \in DocTypes |->
    CASE t = "SellerLicense" -> {"Seller"}
      [] OTHER               -> {}]

SubmissionStatuses == {"pending", "in_review", "approved", "rejected"}
ActiveStatuses == {"pending", "in_review"}
NoDocument == "none"

\* User.is_admin
is_admin(u) == ("Admin" \in UserRoles[u]) \/ UserIsStaff[u]

\* DRF SAFE_METHODS; every handler modelled here is reached by POST
SAFE_METHODS == {"GET", "HEAD", "OPTIONS"}

\* IsOwnerOrAdmin.has_permission
has_permission(actor, method) ==
    IF method \in SAFE_METHODS THEN TRUE ELSE is_admin(actor)

\* IsOwnerOrAdmin.has_object_permission for an object with a `user` attribute
has_object_permission(actor, obj) ==
    obj.user = actor \/ is_admin(actor)

\* IsOwnerOrAdmin.has_object_permission for an object without `user` (BusinessProfile)
has_object_permission_no_user(actor) ==
    is_admin(actor)

----------------------------------------------------------------------------
(* models.py: KYCSubmission *)

SubmissionIds == 1..MaxSubmissions

\* a new KYCSubmission row with the field defaults of the model; submitted_at
\* is auto_now_add, the time of the insert
NewSubmission(user, business, status) ==
    [ user             |-> user,
      business_profile |-> business,
      status           |-> status,
      submitted_at     |-> now,
      reviewed_at      |-> NULL,
      reviewed_by      |-> NULL,
      rejection_reason |-> NULL,
      documents        |-> [t \in DocTypes |-> NoDocument] ]

\* what stays at the id of a KYCSubmission row that was deleted: ids are not
\* given out again, and no user, status or document of the row is left
DeletedSubmission ==
    [NewSubmission(NULL, NULL, "deleted") EXCEPT !.submitted_at = NULL]

\* KYCSubmission.objects.get(id=...) finds a row
submission_exists(subs, id) ==
    id \in 1..Len(subs) /\ subs[id] # DeletedSubmission

\* KYCSubmission.is_kyb_submission
is_kyb_submission(s) == s.business_profile # NULL

\* get_required_documents with the is_active filter forgotten
get_required_documents_inactive_too(cat, s) ==
    IF s.business_profile # NULL
    THEN {t \in DocTypes : /\ cat[t].is_required
                           /\ cat[t].applicable_to \in {"business", "both"}}
    ELSE {t \in DocTypes : /\ cat[t].is_required
                           /\ cat[t].applicable_to \in {"individual", "both"}}

\* KYCSubmission.get_required_documents
get_required_documents(cat, s) ==
    IF is_kyb_submission(s)
    THEN {t \in DocTypes : /\ cat[t].is_active
                           /\ cat[t].is_required
                           /\ cat[t].applicable_to \in {"business", "both"}}
    ELSE {t \in DocTypes : /\ cat[t].is_active
                           /\ cat[t].is_required
                           /\ cat[t].applicable_to \in {"individual", "both"}}

\* submission.documents.values_list('document_type_id')
uploaded_doc_types(s) == {t \in DocTypes : s.documents[t] # NoDocument}

\* has_all_required_documents counting approved documents only
has_all_required_documents_approved_only(cat, s) ==
    get_required_documents(cat, s) \subseteq {t \in DocTypes : s.documents[t] = "approved"}

\* KYCSubmission.has_all_required_documents
has_all_required_documents(cat, s) ==
    get_required_documents(cat, s) \subseteq uploaded_doc_types(s)

\* DocumentType.is_applicable_for_user
is_applicable_for_user(cat, t, user) ==
    /\ cat[t].is_active
    /\ IF ProfileAccountType[user] = "business"
       THEN cat[t].applicable_to \in {"business", "both"}
       ELSE cat[t].applicable_to \in {"individual", "both"}
    /\ (cat[t].required_roles # {} => cat[t].required_roles \cap UserRoles[user] # {})

----------------------------------------------------------------------------
(* models.py: post_save signals *)

\* a receiver that raises the flag only for an approved submission whose
\* documents are all approved
update_user_kyc_status_checking_documents(verified, subs, instance) ==
    LET user == instance.user IN
    IF /\ instance.status = "approved"
       /\ \A t \in DOMAIN instance.documents : instance.documents[t] = "approved"
       /\ ~verified[user]
    THEN [verified EXCEPT ![user] = TRUE]
    ELSE IF instance.status # "approved" /\ verified[user]
    THEN LET is_still_approved ==
                 \E i \in 1..Len(subs) :
                     subs[i].user = user /\ subs[i].status = "approved"
         IN IF ~is_still_approved
            THEN [verified EXCEPT ![user] = FALSE]
            ELSE verified
    ELSE verified

\* update_user_kyc_status: receiver of post_save(KYCSubmission); `subs` is the
\* table after the save, `instance` the saved row
update_user_kyc_status(verified, subs, instance) ==
    LET user == instance.user IN
    IF instance.status = "approved" /\ ~verified[user]
    THEN [verified EXCEPT ![user] = TRUE]
    ELSE IF instance.status # "approved" /\ verified[user]
    THEN LET is_still_approved ==
                 \E i \in 1..Len(subs) :
                     subs[i].user = user /\ subs[i].status = "approved"
         IN IF ~is_still_approved
            THEN [verified EXCEPT ![user] = FALSE]
            ELSE verified
    ELSE verified

\* a receiver that raises the flag and never lowers it
update_kyc_verification_on_document_change_raising_only(verified, cat, submission) ==
    LET user == submission.user
        required_docs == get_required_documents(cat, submission)
        approved_docs == {t \in required_docs : submission.documents[t] = "approved"}
        all_required_approved == Cardinality(approved_docs) = Cardinality(required_docs)
    IN IF all_required_approved /\ ~verified[user]
       THEN [verified EXCEPT ![user] = TRUE]
       ELSE verified

\* update_kyc_verification_on_document_change: receiver of post_save(KYCDocument);
\* `submission` is the saved document's submission, after the save
update_kyc_verification_on_document_change(verified, cat, submission) ==
    LET user == submission.user
        required_docs == get_required_documents(cat, submission)
        approved_docs == {t \in required_docs : submission.documents[t] = "approved"}
        all_required_approved == Cardinality(approved_docs) = Cardinality(required_docs)
    IN IF all_required_approved /\ ~verified[user]
       THEN [verified EXCEPT ![user] = TRUE]
       ELSE IF ~all_required_approved /\ verified[user]
       THEN [verified EXCEPT ![user] = FALSE]
       ELSE verified

----------------------------------------------------------------------------
\* the workers that serve requests and run tasks side by side
Workers == {"w1", "w2"}

\* a worker between two requests
Idle == [op |-> "idle"]

\* User.password before any reset
InitialPassword == "pw0"

\* no token issued, no email verified, every worker idle, no document row
InitRest ==
    /\ tokens = << >>
    /\ now = 0
    /\ is_email_verified = [u \in Users |-> FALSE]
    /\ password = [u \in Users |-> InitialPassword]
    /\ requests = [w \in Workers |-> Idle]
    /\ kyc_documents = {}

Init ==
    /\ catalog = [t \in DocTypes |->
                    [ is_active      |-> TRUE,
                      is_required    |-> TRUE,
                      applicable_to  |-> DocTypeApplicableTo[t],
                      required_roles |-> DocTypeRequiredRoles[t],
                      max_file_size_mb   |-> DefaultMaxFileSizeMb,
                      allowed_file_types |-> << >> ]]
    /\ submissions = << >>
    /\ is_kyc_verified = [u \in Users |-> FALSE]
    /\ businesses = {}
    /\ owners = [b \in Businesses |-> {}]
    /\ tasks = {}
    /\ InitRest

----------------------------------------------------------------------------
(* views.py: KYCSubmissionViewSet *)

\* the guard of perform_create with in_review left out of the status list
has_active_submission_pending_only(subs, user) ==
    \E i \in 1..Len(subs) : subs[i].user = user /\ subs[i].status = "pending"

\* the exists() query of perform_create with KYB submissions left out
has_active_submission_personal_only(subs, user) ==
    \E i \in 1..Len(subs) :
        /\ subs[i].user = user
        /\ subs[i].business_profile = NULL
        /\ subs[i].status \in ActiveStatuses

\* the guard of perform_create: an active submission whose user is the requester
has_active_submission(subs, user) ==
    \E i \in 1..Len(subs) : subs[i].user = user /\ subs[i].status \in ActiveStatuses

\* outcome of POST /kyc-submissions/ for `actor`
perform_create_result(subs, actor) ==
    IF ~has_permission(actor, "POST") THEN "forbidden"
    ELSE IF has_active_submission(subs, actor) THEN "duplicate_active"
    ELSE "created"

\* KYCSubmissionViewSet.perform_create; `status` is the writable serializer field
perform_create(actor, status) ==
    LET result == perform_create_result(submissions, actor) IN
    /\ IF result = "created"
       THEN /\ Len(submissions) < MaxSubmissions
            /\ LET instance == NewSubmission(actor, NULL, status)
                   subs == Append(submissions, instance)
               IN /\ submissions' = subs
                  /\ is_kyc_verified' = update_user_kyc_status(is_kyc_verified, subs, instance)
       ELSE UNCHANGED <<submissions, is_kyc_verified>>
    /\ UNCHANGED <<catalog, businesses, owners, tasks>>

\* the permission check of the view followed by get_object() of
\* KYCSubmissionViewSet: "ok" when the handler goes on with the submission
get_object_result(subs, actor, pk) ==
    IF ~has_permission(actor, "POST") THEN "forbidden"
    ELSE IF ~submission_exists(subs, pk) THEN "not_found"
    ELSE IF ~is_admin(actor) /\ subs[pk].user # actor THEN "not_found"
    ELSE IF ~has_object_permission(actor, subs[pk]) THEN "forbidden"
    ELSE "ok"

\* the applicability test of upload_document
is_valid_type(cat, actor, t) ==
    LET account_type == ProfileAccountType[actor] IN
    \/ (account_type = "individual" /\ cat[t].applicable_to \in {"individual", "both"})
    \/ (account_type = "business" /\ cat[t].applicable_to \in {"business", "both"})

\* upload_document with the status guard letting in_review through
upload_document_result_in_review_too(cat, subs, actor, pk, t) ==
    LET got == get_object_result(subs, actor, pk) IN
    IF got # "ok" THEN got
    ELSE IF subs[pk].status \notin {"pending", "in_review"} THEN "not_editable"
    ELSE IF ~cat[t].is_active THEN "invalid_document_type"
    ELSE IF ~is_valid_type(cat, actor, t) THEN "not_applicable"
    ELSE IF subs[pk].documents[t] # NoDocument THEN "integrity_error"
    ELSE "document_created"

\* upload_document without unique_together (submission, document_type)
upload_document_result_without_unique(cat, subs, actor, pk, t) ==
    LET got == get_object_result(subs, actor, pk) IN
    IF got # "ok" THEN got
    ELSE IF subs[pk].status # "pending" THEN "not_editable"
    ELSE IF ~cat[t].is_active THEN "invalid_document_type"
    ELSE IF ~is_valid_type(cat, actor, t) THEN "not_applicable"
    ELSE "document_created"

\* outcome of POST /kyc-submissions/{pk}/upload-document/
upload_document_result(cat, subs, actor, pk, t) ==
    LET got == get_object_result(subs, actor, pk) IN
    IF got # "ok" THEN got
    ELSE IF subs[pk].status # "pending" THEN "not_editable"
    ELSE IF ~cat[t].is_active THEN "invalid_document_type"
    ELSE IF ~is_valid_type(cat, actor, t) THEN "not_applicable"
    ELSE IF subs[pk].documents[t] # NoDocument THEN "integrity_error"
    ELSE "document_created"

\* KYCSubmissionViewSet.upload_document
upload_document(actor, pk, t) ==
    LET result == upload_document_result(catalog, submissions, actor, pk, t) IN
    /\ IF result = "document_created"
       THEN LET subs == [submissions EXCEPT ![pk].documents[t] = "pending"] IN
            /\ submissions' = subs
            /\ is_kyc_verified' =
                   update_kyc_verification_on_document_change(is_kyc_verified, catalog, subs[pk])
       ELSE UNCHANGED <<submissions, is_kyc_verified>>
    /\ UNCHANGED <<catalog, businesses, owners, tasks>>

\* missing_documents without the subtraction of the uploaded types
missing_documents_all_required(cat, s) ==
    get_required_documents(cat, s)

\* the missing_documents list of submit_for_review (names of document types)
missing_documents(cat, s) ==
    LET required_docs == get_required_documents(cat, s)
        missing_doc_ids == required_docs \ uploaded_doc_types(s)
    IN {t \in required_docs : t \in missing_doc_ids}

\* outcome of POST /kyc-submissions/{pk}/submit-for-review/
submit_for_review_result(cat, subs, actor, pk) ==
    LET got == get_object_result(subs, actor, pk) IN
    IF got # "ok" THEN got
    ELSE IF subs[pk].status # "pending" THEN "already_processed"
    ELSE IF ~has_all_required_documents(cat, subs[pk]) THEN "missing_documents"
    ELSE "submitted"

\* submit_for_review with the status stored and the task dispatched, and
\* submitted_at left as the insert set it
submit_for_review_without_timestamp(actor, pk) ==
    LET result == submit_for_review_result(catalog, submissions, actor, pk) IN
    /\ IF result = "submitted"
       THEN LET subs == [submissions EXCEPT ![pk].status = "in_review"] IN
            /\ submissions' = subs
            /\ is_kyc_verified' = update_user_kyc_status(is_kyc_verified, subs, subs[pk])
            /\ tasks' = tasks \cup {pk}
       ELSE UNCHANGED <<submissions, is_kyc_verified, tasks>>
    /\ UNCHANGED <<catalog, businesses, owners>>

\* KYCSubmissionViewSet.submit_for_review
submit_for_review(actor, pk) ==
    LET result == submit_for_review_result(catalog, submissions, actor, pk) IN
    /\ IF result = "submitted"
       THEN LET subs == [submissions EXCEPT ![pk].status = "in_review",
                                            ![pk].submitted_at = now] IN
            /\ submissions' = subs
            /\ is_kyc_verified' = update_user_kyc_status(is_kyc_verified, subs, subs[pk])
            /\ tasks' = tasks \cup {pk}
       ELSE UNCHANGED <<submissions, is_kyc_verified, tasks>>
    /\ UNCHANGED <<catalog, businesses, owners>>

----------------------------------------------------------------------------
(* views.py: BusinessProfileViewSet *)

\* BusinessProfileViewSet.perform_create: the creator becomes the primary owner
business_perform_create(actor, b) ==
    /\ b \notin businesses
    /\ IF ~has_permission(actor, "POST")
       THEN UNCHANGED <<businesses, owners>>
       ELSE /\ businesses' = businesses \cup {b}
            /\ owners' = [owners EXCEPT ![b] = @ \cup
                             {[ user               |-> actor,
                                ownership_type     |-> "owner",
                                is_primary_contact |-> TRUE ]}]
    /\ UNCHANGED <<catalog, submissions, is_kyc_verified, tasks>>

\* the existing_submission query with in_review left out of the status list
business_has_active_submission_pending_only(subs, b) ==
    \E i \in 1..Len(subs) :
        subs[i].business_profile = b /\ subs[i].status = "pending"

\* the existing_submission query of create_kyb_submission
business_has_active_submission(subs, b) ==
    \E i \in 1..Len(subs) :
        subs[i].business_profile = b /\ subs[i].status \in ActiveStatuses

\* outcome of POST /business-profiles/{b}/create-kyb-submission/
create_kyb_submission_result(subs, biz, own, actor, b) ==
    IF ~has_permission(actor, "POST") THEN "forbidden"
    ELSE IF b \notin biz THEN "not_found"
    ELSE IF ~is_admin(actor) /\ ~(\E o \in own[b] : o.user = actor) THEN "not_found"
    ELSE IF ~has_object_permission_no_user(actor) THEN "forbidden"
    ELSE IF ~(is_admin(actor) \/ \E o \in own[b] : o.user = actor) THEN "forbidden"
    ELSE IF business_has_active_submission(subs, b) THEN "duplicate_active"
    ELSE "created"

\* BusinessProfileViewSet.create_kyb_submission
create_kyb_submission(actor, b) ==
    LET result == create_kyb_submission_result(submissions, businesses, owners, actor, b) IN
    /\ IF result = "created"
       THEN /\ Len(submissions) < MaxSubmissions
            /\ LET instance == NewSubmission(actor, b, "pending")
                   subs == Append(submissions, instance)
               IN /\ submissions' = subs
                  /\ is_kyc_verified' = update_user_kyc_status(is_kyc_verified, subs, instance)
       ELSE UNCHANGED <<submissions, is_kyc_verified>>
    /\ UNCHANGED <<catalog, businesses, owners, tasks>>

----------------------------------------------------------------------------
(* tasks.py *)

\* the verdicts of the simulated verification: `is_approved = True`
SimulatedVerdicts == {TRUE}

\* the row verify_kyc_submission saves for a verdict
verified_submission(s, is_approved) ==
    IF is_approved
    THEN [s EXCEPT !.status = "approved"]
    ELSE [s EXCEPT !.status = "rejected", !.rejection_reason = "Verification failed"]

\* verify_kyc_submission, run by the worker for a queued message
verify_kyc_submission(submission_id, is_approved) ==
    /\ submission_id \in tasks
    /\ tasks' = tasks \ {submission_id}
    /\ IF ~submission_exists(submissions, submission_id)
       THEN UNCHANGED <<submissions, is_kyc_verified>>
       ELSE LET subs == [submissions EXCEPT ![submission_id] =
                            verified_submission(@, is_approved)]
            IN /\ submissions' = subs
               /\ is_kyc_verified' =
                      update_user_kyc_status(is_kyc_verified, subs, subs[submission_id])
    /\ UNCHANGED <<catalog, businesses, owners>>

----------------------------------------------------------------------------
(* admin.py *)

\* queryset.update(status=..., reviewed_by=request.user, reviewed_at=now) of the
\* two bulk actions: no save() is called, so no post_save signal runs
queryset_update(subs, queryset, status, actor) ==
    [i \in 1..Len(subs) |->
        IF i \in queryset
        THEN [subs[i] EXCEPT !.status = status,
                             !.reviewed_by = actor,
                             !.reviewed_at = "set"]
        ELSE subs[i]]

\* KYCSubmissionAdmin.approve_submissions, for a staff user of the admin site
approve_submissions(actor, queryset) ==
    /\ UserIsStaff[actor]
    /\ queryset # {}
    /\ submissions' = queryset_update(submissions, queryset, "approved", actor)
    /\ UNCHANGED <<catalog, is_kyc_verified, businesses, owners, tasks>>

\* KYCSubmissionAdmin.reject_submissions, for a staff user of the admin site
reject_submissions(actor, queryset) ==
    /\ UserIsStaff[actor]
    /\ queryset # {}
    /\ submissions' = queryset_update(submissions, queryset, "rejected", actor)
    /\ UNCHANGED <<catalog, is_kyc_verified, businesses, owners, tasks>>

\* DocumentTypeAdmin: a staff user saves a DocumentType with new flags
save_document_type(actor, t, active, required) ==
    /\ UserIsStaff[actor]
    /\ catalog' = [catalog EXCEPT ![t].is_active = active, ![t].is_required = required]
    /\ UNCHANGED <<submissions, is_kyc_verified, businesses, owners, tasks>>

----------------------------------------------------------------------------
(* The system *)

Next ==
    \/ \E actor \in Users, status \in SubmissionStatuses : perform_create(actor, status)
           /\ UNCHANGED <<token_vars, requests, kyc_documents>>
    \/ \E actor \in Users, pk \in SubmissionIds, t \in DocTypes : upload_document(actor, pk, t)
           /\ UNCHANGED <<token_vars, requests, kyc_documents>>
    \/ \E actor \in Users, pk \in SubmissionIds : submit_for_review(actor, pk)
           /\ UNCHANGED <<token_vars, requests, kyc_documents>>
    \/ \E actor \in Users, b \in Businesses : business_perform_create(actor, b)
           /\ UNCHANGED <<token_vars, requests, kyc_documents>>
    \/ \E actor \in Users, b \in Businesses : create_kyb_submission(actor, b)
           /\ UNCHANGED <<token_vars, requests, kyc_documents>>
    \/ \E id \in SubmissionIds, is_approved \in SimulatedVerdicts :
           verify_kyc_submission(id, is_approved)
           /\ UNCHANGED <<token_vars, requests, kyc_documents>>
    \/ \E actor \in Users, queryset \in SUBSET (1..Len(submissions)) :
           approve_submissions(actor, queryset)
           /\ UNCHANGED <<token_vars, requests, kyc_documents>>
    \/ \E actor \in Users, queryset \in SUBSET (1..Len(submissions)) :
           reject_submissions(actor, queryset)
           /\ UNCHANGED <<token_vars, requests, kyc_documents>>
    \/ \E actor \in Users, t \in EditableDocTypes, active \in BOOLEAN, required \in BOOLEAN :
           save_document_type(actor, t, active, required)
           /\ UNCHANGED <<token_vars, requests, kyc_documents>>

Spec == Init /\ [][Next]_vars

----------------------------------------------------------------------------
(* Vocabulary of the properties *)

\* the ids of the stored submissions
StoredIds == 1..Len(submissions)

\* a step that saves a KYCSubmission or a KYCDocument through the model layer
\* (create, upload, submit-for-review, create-KYB, verification task)
SaveStep ==
    \/ \E actor \in Users, status \in SubmissionStatuses : perform_create(actor, status)
    \/ \E actor \in Users, pk \in SubmissionIds, t \in DocTypes : upload_document(actor, pk, t)
    \/ \E actor \in Users, pk \in SubmissionIds : submit_for_review(actor, pk)
    \/ \E actor \in Users, b \in Businesses : create_kyb_submission(actor, b)
    \/ \E id \in SubmissionIds, is_approved \in SimulatedVerdicts :
           verify_kyc_submission(id, is_approved)

\* the individual/business axis of a submission and the applicable_to values
\* that match it, as the specification states the matching rule
MatchingApplicableTo(s) ==
    IF s.business_profile # NULL THEN {"business", "both"} ELSE {"individual", "both"}

\* the required set of a submission as the specification states it, without
\* the role filter: active, required, matching the submission's axis
RequiredNow(cat, s) ==
    {t \in DocTypes : /\ cat[t].is_active = TRUE
                      /\ cat[t].is_required = TRUE
                      /\ cat[t].applicable_to \in MatchingApplicableTo(s)}

\* the document types attached to a submission, whatever their review status
Attached(s) == {t \in DocTypes : s.documents[t] \in {"pending", "approved", "rejected"}}

----------------------------------------------------------------------------
(* C1 *)

\* some submission of `u` has every currently required type attached and approved
SomeSubmissionFullyApproved(cat, subs, u) ==
    \E i \in 1..Len(subs) :
        /\ subs[i].user = u
        /\ \A t \in RequiredNow(cat, subs[i]) : subs[i].documents[t] = "approved"

\* C1: after every save of a KYCSubmission or KYCDocument, for every user,
\* is_kyc_verified is true iff at least one of the user's submissions has every
\* document type of its current required set attached with an approved document.
\* The code does not satisfy it: the submission signal raises the flag on the
\* submission's own status, whatever the documents.
C1_VerifiedIffFullyApproved ==
    [][ (SaveStep /\ <<submissions, is_kyc_verified>>' # <<submissions, is_kyc_verified>>)
        => \A u \in Users :
              is_kyc_verified'[u] <=> SomeSubmissionFullyApproved(catalog', submissions', u)
      ]_vars

----------------------------------------------------------------------------
(* C2 *)

ActivePersonal(u) ==
    {i \in StoredIds : /\ submissions[i].user = u
                       /\ submissions[i].business_profile = NULL
                       /\ submissions[i].status \in {"pending", "in_review"}}

ActiveOfBusiness(b) ==
    {i \in StoredIds : /\ submissions[i].business_profile = b
                       /\ submissions[i].status \in {"pending", "in_review"}}

\* C2: in every reachable state each user has at most one personal submission
\* in {pending, in_review} and each business has at most one submission in
\* {pending, in_review}.
C2_AtMostOneActive ==
    /\ \A u \in Users : Cardinality(ActivePersonal(u)) <= 1
    /\ \A b \in Businesses : Cardinality(ActiveOfBusiness(b)) <= 1

\* one user holds an active submission of each kind: a KYB submission created
\* while the user's personal submission is in review
C2_Witness ==
    \E i, j \in StoredIds :
        /\ i < j
        /\ submissions[i].user = submissions[j].user
        /\ submissions[i].business_profile = NULL
        /\ submissions[i].status = "in_review"
        /\ submissions[j].business_profile # NULL
        /\ submissions[j].status = "pending"

----------------------------------------------------------------------------
(* C3 *)

\* C3: when a user (or business) already has a submission in pending or
\* in_review, a further create-submission (or create-KYB-submission) call
\* creates nothing and leaves the stored submissions as they are, and the caller
\* the permission layer admits is answered with the duplicate-active error.
C3_DuplicateCreateRejected ==
    /\ [](\A actor \in Users :
            has_active_submission(submissions, actor)
                => perform_create_result(submissions, actor) = "duplicate_active")
    /\ [](\A actor \in Users, b \in Businesses :
            ActiveOfBusiness(b) # {}
                => /\ create_kyb_submission_result(submissions, businesses, owners, actor, b)
                         # "created"
                   /\ is_admin(actor)
                         => create_kyb_submission_result(submissions, businesses, owners,
                                                         actor, b) = "duplicate_active")
    /\ [][ /\ \A actor \in Users, status \in SubmissionStatuses :
                (perform_create(actor, status)
                    /\ \E i \in StoredIds : /\ submissions[i].user = actor
                                            /\ submissions[i].status \in {"pending", "in_review"})
                => UNCHANGED <<submissions, is_kyc_verified, tasks>>
           /\ \A actor \in Users, b \in Businesses :
                (create_kyb_submission(actor, b) /\ ActiveOfBusiness(b) # {})
                => UNCHANGED <<submissions, is_kyc_verified, tasks>>
         ]_vars

\* an active KYB submission is stored, so both guards see an active submission
\* (of the user and of the business), and the table has room for one more
C3_Witness ==
    /\ Len(submissions) < MaxSubmissions
    /\ \E i \in StoredIds :
        /\ submissions[i].business_profile \in Businesses
        /\ submissions[i].status \in {"pending", "in_review"}
        /\ perform_create_result(submissions, submissions[i].user) = "duplicate_active"
        /\ create_kyb_submission_result(submissions, businesses, owners, submissions[i].user,
                                        submissions[i].business_profile) = "duplicate_active"

----------------------------------------------------------------------------
(* C4 *)

\* C4: for a caller the permission layer admits, submit-for-review moves a
\* pending submission to in_review iff the required set, taken from the catalog
\* as it is at the call, is a subset of the attached document types, whatever
\* the documents' own statuses; otherwise the call fails and the submission
\* stays as it is.
C4_SubmitIffRequiredAttached ==
    /\ [](\A actor \in Users, pk \in StoredIds :
            (get_object_result(submissions, actor, pk) = "ok"
                /\ submissions[pk].status = "pending")
            => (submit_for_review_result(catalog, submissions, actor, pk) = "submitted"
                  <=> RequiredNow(catalog, submissions[pk]) \subseteq Attached(submissions[pk])))
    /\ [][ \A actor \in Users, pk \in StoredIds :
             (submit_for_review(actor, pk) /\ submissions[pk].status = "pending")
             => IF /\ get_object_result(submissions, actor, pk) = "ok"
                   /\ RequiredNow(catalog, submissions[pk]) \subseteq Attached(submissions[pk])
                THEN /\ submissions' = [submissions EXCEPT ![pk].status = "in_review"]
                     /\ pk \in tasks'
                ELSE UNCHANGED <<submissions, is_kyc_verified, tasks>>
         ]_vars

\* a personal submission went to review with PassportID alone, which the
\* catalog of the initial state (SellerLicense required) would not have allowed
C4_Witness ==
    \E pk \in StoredIds :
        /\ pk \in tasks
        /\ submissions[pk].status = "in_review"
        /\ submissions[pk].business_profile = NULL
        /\ Attached(submissions[pk]) = {"PassportID"}
        /\ RequiredNow(catalog, submissions[pk]) = {"PassportID"}

----------------------------------------------------------------------------
(* C5 *)

\* the submission with a pending document attached for each type of `types`
WithAttached(s, types) ==
    [s EXCEPT !.documents = [t \in DocTypes |-> IF t \in types /\ @[t] = NoDocument
                                                THEN "pending" ELSE @[t]]]

\* C5: when submit-for-review fails for missing documents, the reported list is
\* exactly the set of required types with no attached document, and with a
\* document of each reported type attached the retry succeeds.
C5_MissingListExact ==
    \A actor \in Users, pk \in StoredIds :
        submit_for_review_result(catalog, submissions, actor, pk) = "missing_documents"
        => LET s == submissions[pk]
               reported == missing_documents(catalog, s)
           IN /\ reported = {t \in RequiredNow(catalog, s) : s.documents[t] = NoDocument}
              /\ reported # {}
              /\ submit_for_review_result(
                     catalog, [submissions EXCEPT ![pk] = WithAttached(s, reported)],
                     actor, pk) = "submitted"

\* submit-for-review fails on a submission that has one of its two required
\* documents, and reports the other one
C5_Witness ==
    \E pk \in StoredIds :
        /\ submit_for_review_result(catalog, submissions, "a1", pk) = "missing_documents"
        /\ Attached(submissions[pk]) = {"PassportID"}
        /\ missing_documents(catalog, submissions[pk]) = {"SellerLicense"}

----------------------------------------------------------------------------
(* C6 *)

\* the status changes of one submission that the lifecycle allows
AllowedStatusChange(old, new) ==
    \/ new = old
    \/ old = "pending" /\ new = "in_review"
    \/ old = "in_review" /\ new \in {"approved", "rejected"}

\* C6: a step of a non-administrative operation changes a submission's status
\* only along pending -> in_review -> approved or rejected.  The code does not
\* satisfy it: the verification task overwrites a terminal status.
C6_LifecycleOnly ==
    [][ SaveStep => \A pk \in StoredIds :
                        AllowedStatusChange(submissions[pk].status, submissions'[pk].status)
      ]_vars

----------------------------------------------------------------------------
(* C7 *)

\* C7: upload-document succeeds only on a pending submission; on a submission in
\* in_review, approved or rejected it fails, for the caller the permission layer
\* admits with the not-editable error, and the submission's documents stay as
\* they are.
C7_UploadOnlyWhilePending ==
    /\ [](\A actor \in Users, pk \in StoredIds, t \in DocTypes :
            submissions[pk].status # "pending"
            => /\ upload_document_result(catalog, submissions, actor, pk, t) # "document_created"
               /\ get_object_result(submissions, actor, pk) = "ok"
                     => upload_document_result(catalog, submissions, actor, pk, t)
                            = "not_editable")
    /\ [][ \A pk \in StoredIds :
             submissions[pk].status # "pending"
             => submissions'[pk].documents = submissions[pk].documents
         ]_vars

\* a submission in review that lacks a document of an active, applicable type:
\* only the status guard stands between the caller and the upload
C7_Witness ==
    \E pk \in StoredIds, t \in DocTypes :
        /\ submissions[pk].status = "in_review"
        /\ submissions[pk].documents[t] = NoDocument
        /\ Attached(submissions[pk]) # {}
        /\ catalog[t].is_active
        /\ is_valid_type(catalog, "a1", t)
        /\ upload_document_result(catalog, submissions, "a1", pk, t) = "not_editable"

----------------------------------------------------------------------------
(* C8 *)

\* C8: upload-document accepts a document type exactly when its applicable_to
\* matches the submission's own nature (business or both for a KYB submission,
\* individual or both for a personal one), required or not.  The code does not
\* satisfy it: it matches applicable_to against the requester's account type.
C8_ApplicabilityBySubmissionNature ==
    \A actor \in Users, pk \in StoredIds, t \in DocTypes :
        (/\ get_object_result(submissions, actor, pk) = "ok"
         /\ submissions[pk].status = "pending"
         /\ catalog[t].is_active
         /\ submissions[pk].documents[t] = NoDocument)
        => (upload_document_result(catalog, submissions, actor, pk, t) = "document_created"
              <=> catalog[t].applicable_to \in MatchingApplicableTo(submissions[pk]))

----------------------------------------------------------------------------
(* C9 *)

\* every value of a catalog row
CatalogRows ==
    [ is_active      : BOOLEAN,
      is_required    : BOOLEAN,
      applicable_to  : {"individual", "business", "both"},
      required_roles : {{}, {"Seller"}},
      max_file_size_mb   : {DefaultMaxFileSizeMb},
      allowed_file_types : {<< >>} ]

\* any catalog, nothing else stored
InitAnyCatalog ==
    /\ catalog \in [DocTypes -> CatalogRows]
    /\ submissions = << >>
    /\ is_kyc_verified = [u \in Users |-> FALSE]
    /\ businesses = {}
    /\ owners = [b \in Businesses |-> {}]
    /\ tasks = {}
    /\ InitRest

\* the operations that create submissions and resolve their required set
NextResolver ==
    \/ \E actor \in Users : perform_create(actor, "pending")
           /\ UNCHANGED <<token_vars, requests, kyc_documents>>
    \/ \E actor \in Users, b \in Businesses : business_perform_create(actor, b)
           /\ UNCHANGED <<token_vars, requests, kyc_documents>>
    \/ \E actor \in Users, b \in Businesses : create_kyb_submission(actor, b)
           /\ UNCHANGED <<token_vars, requests, kyc_documents>>
    \/ \E actor \in Users, pk \in SubmissionIds : submit_for_review(actor, pk)
           /\ UNCHANGED <<token_vars, requests, kyc_documents>>

SpecResolver == InitAnyCatalog /\ [][NextResolver]_vars

\* C9: for every catalog and every submission, the required set of the resolver
\* holds no inactive type, no type with is_required false and no type whose
\* applicable_to does not match the submission's individual/business axis.
C9_RequiredSetFiltered ==
    \A pk \in StoredIds :
        \A t \in get_required_documents(catalog, submissions[pk]) :
            /\ catalog[t].is_active
            /\ catalog[t].is_required
            /\ catalog[t].applicable_to \in MatchingApplicableTo(submissions[pk])

\* a KYB submission with a type in its required set, next to a personal
\* submission for which that type does not match, while the other type is
\* required but inactive
C9_Witness ==
    \E i, j \in StoredIds, t, x \in DocTypes :
        /\ submissions[i].business_profile # NULL
        /\ submissions[j].business_profile = NULL
        /\ t \in get_required_documents(catalog, submissions[i])
        /\ catalog[t].applicable_to = "business"
        /\ ~catalog[x].is_active /\ catalog[x].is_required
        /\ catalog[x].applicable_to = "both"

----------------------------------------------------------------------------
(* C10 *)

\* C10: the required set used by submit-for-review and by the recomputation of
\* the verified flag holds a type with non-empty required_roles only when the
\* roles of the submission's owner intersect required_roles.  The code does not
\* satisfy it: get_required_documents never reads required_roles.
C10_RequiredSetHonoursRoles ==
    \A pk \in StoredIds :
        \A t \in get_required_documents(catalog, submissions[pk]) :
            catalog[t].required_roles # {}
            => catalog[t].required_roles \cap UserRoles[submissions[pk].user] # {}

----------------------------------------------------------------------------
(* serializers.py: KYCDocumentUploadSerializer.validate_file;              *)
(* models.py: KYCDocument._validate_file                                   *)

\* file names and extensions are sequences of one-character strings
Chars == {"a", "p", "d", "f", "j", "g", "P", "D", "F", "."}

\* str.lower() on one character
LowerOf == [c \in Chars |->
    CASE c = "P" -> "p"
      [] c = "D" -> "d"
      [] c = "F" -> "f"
      [] OTHER   -> c]

\* str.lower()
str_lower(str) == [i \in 1..Len(str) |-> LowerOf[str[i]]]

\* str.split('.')[-1]: the piece after the last '.', the whole string when
\* it holds no '.'
split_last(str) ==
    LET dots == {i \in 1..Len(str) : str[i] = "."} IN
    IF dots = {} THEN str
    ELSE LET last == CHOOSE i \in dots : \A k \in dots : k <= i
         IN SubSeq(str, last + 1, Len(str))

\* the entries of a list, as a set
list_entries(list) == {list[i] : i \in 1..Len(list)}

\* the extension test without lower-casing the entries of allowed_file_types
extension_allowed_entries_as_written(allowed_types, name) ==
    str_lower(split_last(name)) \in list_entries(allowed_types)

\* file_extension in [ext.lower() for ext in allowed_types]
extension_allowed(allowed_types, name) ==
    str_lower(split_last(name)) \in {str_lower(ext) : ext \in list_entries(allowed_types)}

\* the size test with >= in place of >
exceeds_max_size_at_limit_too(max_file_size_mb, size) ==
    size >= max_file_size_mb * 1024 * 1024

\* value.size > doc_type.max_file_size_mb * 1024 * 1024
exceeds_max_size(max_file_size_mb, size) ==
    size > max_file_size_mb * 1024 * 1024

\* KYCDocumentUploadSerializer.validate_file for an existing document type
validate_file(cat, t, file) ==
    IF exceeds_max_size(cat[t].max_file_size_mb, file.size) THEN "file_too_large"
    ELSE IF cat[t].allowed_file_types # << >>
            /\ ~extension_allowed(cat[t].allowed_file_types, file.name)
    THEN "file_type_not_allowed"
    ELSE "ok"

\* KYCDocument._validate_file, run by KYCDocument.save
model_validate_file(cat, t, file) ==
    IF file.size > cat[t].max_file_size_mb * 1024 * 1024 THEN "file_too_large"
    ELSE IF cat[t].allowed_file_types # << >>
            /\ str_lower(split_last(file.name))
                   \notin {str_lower(ext) : ext \in list_entries(cat[t].allowed_file_types)}
    THEN "file_type_not_allowed"
    ELSE "ok"

\* the errors serializer.is_valid collects: validate_document_type_id and
\* validate_file both run
serializer_errors(cat, t, file) ==
    (IF cat[t].is_active THEN {} ELSE {"invalid_document_type"})
    \cup (IF validate_file(cat, t, file) = "ok" THEN {} ELSE {validate_file(cat, t, file)})

\* outcome of POST /kyc-submissions/{pk}/upload-document/ carrying `file`
upload_document_request_result(cat, subs, actor, pk, t, file) ==
    LET got == get_object_result(subs, actor, pk) IN
    IF got # "ok" THEN got
    ELSE IF subs[pk].status # "pending" THEN "not_editable"
    ELSE IF serializer_errors(cat, t, file) # {} THEN "validation_error"
    ELSE IF ~is_valid_type(cat, actor, t) THEN "not_applicable"
    ELSE IF model_validate_file(cat, t, file) # "ok" THEN "value_error"
    ELSE upload_document_result(cat, subs, actor, pk, t)

\* KYCSubmissionViewSet.upload_document with the uploaded file
upload_document_request(actor, pk, t, file) ==
    IF upload_document_request_result(catalog, submissions, actor, pk, t, file)
           = "document_created"
    THEN upload_document(actor, pk, t)
    ELSE UNCHANGED kyc_vars


PdfLower == <<"p", "d", "f">>
PdfUpper == <<"P", "D", "F">>
Jpg == <<"j", "p", "g">>

\* the file names of the uploads
FileNames ==
    { <<"a", ".">> \o PdfLower,                  \* a.pdf
      <<"a", ".">> \o PdfUpper,                  \* a.PDF
      <<"a", ".">> \o Jpg,                       \* a.jpg
      <<"a", ".">> \o PdfLower \o <<".">> \o Jpg, \* a.pdf.jpg
      PdfLower,                                  \* pdf
      <<"a", ".">> }                             \* a.

\* the file sizes of the uploads, in bytes; the upload field refuses an
\* empty file before validate_file runs
FileSizes ==
    { 1, 1024 * 1024 - 1, 1024 * 1024, 1024 * 1024 + 1,
      2 * 1024 * 1024, 2 * 1024 * 1024 + 1 }

Files == [size : FileSizes, name : FileNames]

\* the values of DocumentType.allowed_file_types
AllowedFileTypeLists == { << >>, <<PdfLower>>, <<PdfUpper, Jpg>> }

\* the values of DocumentType.max_file_size_mb
MaxFileSizesMb == {1, 2}

\* the catalog of the initial state with any file constraints and any
\* is_active flag on each type
InitAnyFileRules ==
    /\ catalog \in [DocTypes ->
           [ is_active      : BOOLEAN,
             is_required    : {TRUE},
             applicable_to  : {"both"},
             required_roles : {{}},
             max_file_size_mb   : MaxFileSizesMb,
             allowed_file_types : AllowedFileTypeLists ]]
    /\ submissions = << >>
    /\ is_kyc_verified = [u \in Users |-> FALSE]
    /\ businesses = {}
    /\ owners = [b \in Businesses |-> {}]
    /\ tasks = {}
    /\ InitRest

\* submissions are created and files uploaded to them
NextValidator ==
    \/ \E actor \in Users : perform_create(actor, "pending")
           /\ UNCHANGED <<token_vars, requests, kyc_documents>>
    \/ \E actor \in Users, pk \in SubmissionIds, t \in DocTypes, file \in Files :
           upload_document_request(actor, pk, t, file)
           /\ UNCHANGED <<token_vars, requests, kyc_documents>>

SpecValidator == InitAnyFileRules /\ [][NextValidator]_vars

----------------------------------------------------------------------------
(* C11 *)

\* the byte limit of a document type
SizeLimit(cat, t) == cat[t].max_file_size_mb * 1024 * 1024

\* the upload gets as far as the validation of the file: the caller is
\* handed the submission and the submission is pending
ReachesValidation(subs, actor, pk) ==
    /\ get_object_result(subs, actor, pk) = "ok"
    /\ subs[pk].status = "pending"

\* the file name passes the extension rule of the type
ExtensionAccepted(cat, t, file) ==
    \/ cat[t].allowed_file_types = << >>
    \/ extension_allowed(cat[t].allowed_file_types, file.name)

\* C11: an upload whose file is larger than max_file_size_mb * 1024 * 1024
\* bytes is refused with the file-too-large error and stores no document; a
\* file of exactly that size is not too large, and is stored when nothing
\* else about the upload is wrong.
C11_FileSizeLimit ==
    /\ [](\A actor \in Users, pk \in StoredIds, t \in DocTypes, file \in Files :
            ReachesValidation(submissions, actor, pk)
            => /\ file.size > SizeLimit(catalog, t)
                  => /\ "file_too_large" \in serializer_errors(catalog, t, file)
                     /\ upload_document_request_result(catalog, submissions, actor, pk, t, file)
                            = "validation_error"
                     /\ model_validate_file(catalog, t, file) = "file_too_large"
               /\ file.size = SizeLimit(catalog, t)
                  => /\ "file_too_large" \notin serializer_errors(catalog, t, file)
                     /\ model_validate_file(catalog, t, file) # "file_too_large"
                     /\ ( /\ catalog[t].is_active
                          /\ ExtensionAccepted(catalog, t, file)
                          /\ submissions[pk].documents[t] = NoDocument )
                        => upload_document_request_result(
                               catalog, submissions, actor, pk, t, file) = "document_created")
    /\ [][\A actor \in Users, pk \in SubmissionIds, t \in DocTypes, file \in Files :
            ( /\ file.size > SizeLimit(catalog, t)
              /\ upload_document_request(actor, pk, t, file) )
            => submissions' = submissions]_vars

\* a pending submission holds a document, and of another active type with
\* the one-megabyte limit a file of 1048576 bytes would be stored while one
\* of 1048577 bytes is refused as too large
C11_Witness ==
    \E pk \in StoredIds, t \in DocTypes, x \in DocTypes :
        /\ submissions[pk].status = "pending"
        /\ submissions[pk].documents[x] = "pending"
        /\ submissions[pk].documents[t] = NoDocument
        /\ catalog[t].is_active
        /\ catalog[t].max_file_size_mb = 1
        /\ upload_document_request_result(catalog, submissions, "a1", pk, t,
               [size |-> 1024 * 1024, name |-> <<"a", ".">> \o PdfLower]) = "document_created"
        /\ serializer_errors(catalog, t,
               [size |-> 1024 * 1024 + 1, name |-> <<"a", ".">> \o PdfLower])
               = {"file_too_large"}

----------------------------------------------------------------------------
(* C12 *)

\* the text after the last '.' of a name: its longest suffix holding no '.'
\* (the whole name when it holds none)
Suffix(name, k) == SubSeq(name, Len(name) - k + 1, Len(name))

DotFree(str) == \A i \in 1..Len(str) : str[i] # "."

TextAfterLastDot(name) ==
    LET k == CHOOSE n \in 0..Len(name) :
                 /\ DotFree(Suffix(name, n))
                 /\ \A m \in 0..Len(name) : DotFree(Suffix(name, m)) => m <= n
    IN Suffix(name, k)

\* C12: for a file within the size limit, the file-type check of the
\* serializer and of the save path passes iff allowed_file_types is empty or
\* the lower-cased text after the last '.' of the file name equals the
\* lower-cased form of one of its entries.
C12_FileTypeCheck ==
    \A t \in DocTypes, file \in Files :
        file.size <= SizeLimit(catalog, t)
        => LET listed == \E i \in 1..Len(catalog[t].allowed_file_types) :
                             str_lower(TextAfterLastDot(file.name))
                                 = str_lower(catalog[t].allowed_file_types[i])
               passes == catalog[t].allowed_file_types = << >> \/ listed
           IN /\ validate_file(catalog, t, file) = "ok" <=> passes
              /\ validate_file(catalog, t, file) = "file_type_not_allowed" <=> ~passes
              /\ model_validate_file(catalog, t, file) = "ok" <=> passes

\* a stored upload to a type that lists PDF and jpg: a.pdf passes through the
\* upper-case entry, a.pdf.jpg through its last piece, and "a." fails; the
\* other type lists nothing and lets "a." pass
C12_Witness ==
    \E pk \in StoredIds, t \in DocTypes, x \in DocTypes :
        /\ submissions[pk].documents[t] = "pending"
        /\ catalog[t].allowed_file_types = <<PdfUpper, Jpg>>
        /\ validate_file(catalog, t, [size |-> 1, name |-> <<"a", ".">> \o PdfLower]) = "ok"
        /\ validate_file(catalog, t,
               [size |-> 1, name |-> <<"a", ".">> \o PdfLower \o <<".">> \o Jpg]) = "ok"
        /\ validate_file(catalog, t, [size |-> 1, name |-> <<"a", ".">>])
               = "file_type_not_allowed"
        /\ catalog[x].allowed_file_types = << >>
        /\ validate_file(catalog, x, [size |-> 1, name |-> <<"a", ".">>]) = "ok"

----------------------------------------------------------------------------
(* views.py: BusinessProfileViewSet.add_owner *)

\* BusinessOwner.OWNERSHIP_TYPE_CHOICES
OwnershipTypes == {"owner", "director", "shareholder", "manager"}

\* request.data.get('is_primary_contact', False): the JSON booleans True and
\* False (False also when the key is absent) and the form strings '1' and '0'
PrimaryContactValues == {"True", "False", "'1'", "'0'"}

\* `if is_primary_contact:` on the request value; a non-empty string is true
is_truthy(value) == value # "False"

\* the boolean the BooleanField stores for the request value
stored_boolean(value) == value \in {"True", "'1'"}

\* the form string 'true': a request value that BooleanField.to_python does
\* not accept, so that BusinessOwner.objects.create raises a ValidationError
LowercaseTrue == "'true'"
PrimaryContactInputs == PrimaryContactValues \cup {LowercaseTrue}

\* BusinessOwner.objects.create raises while preparing is_primary_contact
create_raises(value) == value \notin PrimaryContactValues

\* user_id of the request: a user, a missing key, or an id of no user
NoSuchUser == "nobody"
UserIdValues == Users \cup {NULL, NoSuchUser}

\* outcome of add-owner without the `business.owners.filter(user=user)` check
add_owner_result_without_owner_check(biz, own, actor, b, user_id) ==
    IF ~has_permission(actor, "POST") THEN "forbidden"
    ELSE IF b \notin biz THEN "not_found"
    ELSE IF ~is_admin(actor) /\ ~(\E o \in own[b] : o.user = actor) THEN "not_found"
    ELSE IF ~has_object_permission_no_user(actor) THEN "forbidden"
    ELSE IF ~(is_admin(actor)
              \/ \E o \in own[b] : o.user = actor /\ o.is_primary_contact) THEN "forbidden"
    ELSE IF user_id = NULL THEN "user_id_required"
    ELSE IF user_id \notin Users THEN "user_not_found"
    ELSE "owner_added"

\* outcome of POST /business-profiles/{b}/add-owner/
add_owner_result(biz, own, actor, b, user_id) ==
    IF ~has_permission(actor, "POST") THEN "forbidden"
    ELSE IF b \notin biz THEN "not_found"
    ELSE IF ~is_admin(actor) /\ ~(\E o \in own[b] : o.user = actor) THEN "not_found"
    ELSE IF ~has_object_permission_no_user(actor) THEN "forbidden"
    ELSE IF ~(is_admin(actor)
              \/ \E o \in own[b] : o.user = actor /\ o.is_primary_contact) THEN "forbidden"
    ELSE IF user_id = NULL THEN "user_id_required"
    ELSE IF user_id \notin Users THEN "user_not_found"
    ELSE IF \E o \in own[b] : o.user = user_id THEN "already_owner"
    ELSE "owner_added"

\* the owner rows after the insert, without business.owners.update(...)
owners_after_add_keeping_primary(rows, user, ownership_type, is_primary_contact) ==
    rows \cup {[ user               |-> user,
                 ownership_type     |-> ownership_type,
                 is_primary_contact |-> stored_boolean(is_primary_contact) ]}

\* the owner rows of the business after business.owners.update(
\* is_primary_contact=False), when asked for, and BusinessOwner.objects.create
owners_after_add(rows, user, ownership_type, is_primary_contact) ==
    LET kept == IF is_truthy(is_primary_contact)
                THEN {[o EXCEPT !.is_primary_contact = FALSE] : o \in rows}
                ELSE rows
    IN IF create_raises(is_primary_contact)
       THEN kept
       ELSE kept \cup {[ user               |-> user,
                         ownership_type     |-> ownership_type,
                         is_primary_contact |-> stored_boolean(is_primary_contact) ]}

\* BusinessProfileViewSet.add_owner
add_owner(actor, b, user_id, ownership_type, is_primary_contact) ==
    /\ IF add_owner_result(businesses, owners, actor, b, user_id) = "owner_added"
       THEN owners' = [owners EXCEPT ![b] =
                          owners_after_add(@, user_id, ownership_type, is_primary_contact)]
       ELSE UNCHANGED owners
    /\ UNCHANGED <<catalog, submissions, is_kyc_verified, businesses, tasks>>

\* businesses, their owners and their KYB submissions
NextOwners ==
    \/ \E actor \in Users, b \in Businesses : business_perform_create(actor, b)
           /\ UNCHANGED <<token_vars, requests, kyc_documents>>
    \/ \E actor \in Users, b \in Businesses, user_id \in UserIdValues,
          ownership_type \in OwnershipTypes, is_primary_contact \in PrimaryContactValues :
           add_owner(actor, b, user_id, ownership_type, is_primary_contact)
           /\ UNCHANGED <<token_vars, requests, kyc_documents>>
    \/ \E actor \in Users, b \in Businesses : create_kyb_submission(actor, b)
           /\ UNCHANGED <<token_vars, requests, kyc_documents>>

SpecOwners == Init /\ [][NextOwners]_vars

----------------------------------------------------------------------------
(* C13 *)

\* the owners of a business whose is_primary_contact is true
PrimaryOwners(rows) == {o \in rows : o.is_primary_contact}

\* C13: after any sequence of business-profile creations and add-owner
\* operations every business has at most one owner with is_primary_contact
\* true; an add-owner of B with is_primary_contact true while A is primary
\* leaves B the one primary owner and A's flag false.
C13_OnePrimaryContact ==
    /\ [](\A b \in Businesses : Cardinality(PrimaryOwners(owners[b])) <= 1)
    /\ [][\A actor \in Users, b \in Businesses, B \in Users,
            ownership_type \in OwnershipTypes, flag \in {"True", "'1'"} :
            ( /\ add_owner_result(businesses, owners, actor, b, B) = "owner_added"
              /\ PrimaryOwners(owners[b]) # {}
              /\ add_owner(actor, b, B, ownership_type, flag) )
            => /\ {o.user : o \in PrimaryOwners(owners'[b])} = {B}
               /\ \A A \in PrimaryOwners(owners[b]) :
                      \E o \in owners'[b] : o.user = A.user /\ ~o.is_primary_contact
               /\ Cardinality(owners'[b]) = Cardinality(owners[b]) + 1]_vars

\* the creator a1 was primary, u1 was added as primary and then u2 as
\* primary: u2 is the primary owner and the flags of a1 and u1 are false
C13_Witness ==
    \E b \in businesses :
        /\ {o.user : o \in owners[b]} = {"a1", "u1", "u2"}
        /\ {o.user : o \in PrimaryOwners(owners[b])} = {"u2"}
        /\ \E o \in owners[b] : o.user = "u1" /\ o.ownership_type = "director"

----------------------------------------------------------------------------
(* models.py: AbstractToken, EmailVerificationToken, PasswordResetToken;   *)
(* views.py: confirm_email_verification, password_reset_confirm;           *)
(* tasks.py: expire_old_tokens                                             *)

\* the clock stops at MaxNow, and tokens are generated up to MaxIssueTime
MaxNow == 50
MaxIssueTime == 1

\* generate(expiry_hours=24)
ExpiryHours == 24

\* expire_old_tokens(hours=48)
SweepHours == 48

\* the token strings, each of one table
TokenStrings == {"e1", "p1"}
TokenKind == [k \in TokenStrings |-> IF k = "e1" THEN "email_verification" ELSE "password_reset"]

\* a token string that no row holds
UnknownToken == "bogus"

\* the user the tokens are issued to
TokenUser == "u1"

\* the passwords a reset asks for
NewPasswords == {"pw1", "pw2"}

\* the rows of one token table
token_table(toks, kind) == {k \in DOMAIN toks : toks[k].kind = kind}

\* AbstractToken.generate on a new token of `user`: the row it saves
generate(k, user) ==
    /\ k \notin DOMAIN tokens
    /\ now <= MaxIssueTime
    /\ tokens' = [x \in DOMAIN tokens \cup {k} |->
                     IF x = k
                     THEN [ kind       |-> TokenKind[k],
                            user       |-> user,
                            is_used    |-> FALSE,
                            created_at |-> now,
                            expires_at |-> now + ExpiryHours ]
                     ELSE tokens[x]]
    /\ UNCHANGED <<now, is_email_verified, password>>

\* AbstractToken.is_expired
is_expired(token, time) == time > token.expires_at

\* AbstractToken.is_valid
is_valid(token, time) == ~token.is_used /\ ~is_expired(token, time)

\* the lookup without the is_used=False filter
get_unused_or_used(toks, kind, token) == token \in token_table(toks, kind)

\* Token.objects.get(token=token, is_used=False) finds a row
get_unused(toks, kind, token) ==
    token \in token_table(toks, kind) /\ ~toks[token].is_used

\* outcome of a redemption of `token` against the table of `kind`
confirm_result(toks, time, kind, token) ==
    IF ~get_unused(toks, kind, token) THEN "invalid_or_used"
    ELSE IF is_expired(toks[token], time) THEN "token_expired"
    ELSE "redeemed"

\* confirm_email_verification
confirm_email_verification(token) ==
    /\ IF confirm_result(tokens, now, "email_verification", token) = "redeemed"
       THEN /\ is_email_verified' = [is_email_verified EXCEPT ![tokens[token].user] = TRUE]
            /\ tokens' = [tokens EXCEPT ![token].is_used = TRUE]
       ELSE UNCHANGED <<is_email_verified, tokens>>
    /\ UNCHANGED <<now, password>>

\* password_reset_confirm
password_reset_confirm(token, new_password) ==
    /\ IF confirm_result(tokens, now, "password_reset", token) = "redeemed"
       THEN /\ password' = [password EXCEPT ![tokens[token].user] = new_password]
            /\ tokens' = [tokens EXCEPT ![token].is_used = TRUE]
       ELSE UNCHANGED <<password, tokens>>
    /\ UNCHANGED <<now, is_email_verified>>

\* a sweep whose filter compares created_at with the time of the run
expire_old_tokens_without_age(hours) ==
    LET cutoff == now IN
    /\ tokens' = [k \in DOMAIN tokens |->
                     IF tokens[k].created_at < cutoff /\ ~tokens[k].is_used
                     THEN [tokens[k] EXCEPT !.is_used = TRUE]
                     ELSE tokens[k]]
    /\ UNCHANGED <<now, is_email_verified, password>>

\* expire_old_tokens(hours): unused tokens created before the cutoff are
\* marked used
expire_old_tokens(hours) ==
    LET cutoff == now - hours IN
    /\ tokens' = [k \in DOMAIN tokens |->
                     IF tokens[k].created_at < cutoff /\ ~tokens[k].is_used
                     THEN [tokens[k] EXCEPT !.is_used = TRUE]
                     ELSE tokens[k]]
    /\ UNCHANGED <<now, is_email_verified, password>>

\* an hour passes
Tick ==
    /\ now < MaxNow
    /\ now' = now + 1
    /\ UNCHANGED <<tokens, is_email_verified, password>>

\* tokens are generated, redeemed and swept while time passes
NextTokens ==
    \/ \E k \in TokenStrings : generate(k, TokenUser)
           /\ UNCHANGED <<kyc_vars, requests, kyc_documents>>
    \/ \E token \in TokenStrings \cup {UnknownToken} : confirm_email_verification(token)
           /\ UNCHANGED <<kyc_vars, requests, kyc_documents>>
    \/ \E token \in TokenStrings \cup {UnknownToken}, new_password \in NewPasswords :
           password_reset_confirm(token, new_password)
           /\ UNCHANGED <<kyc_vars, requests, kyc_documents>>
    \/ expire_old_tokens(SweepHours)
           /\ UNCHANGED <<kyc_vars, requests, kyc_documents>>
    \/ Tick
           /\ UNCHANGED <<kyc_vars, requests, kyc_documents>>

SpecTokens == Init /\ [][NextTokens]_vars

----------------------------------------------------------------------------
(* C14 *)

\* a redemption request for `token` at the endpoint of its own table
Redeem(token) ==
    \/ /\ TokenKind[token] = "email_verification"
       /\ confirm_email_verification(token)
    \/ /\ TokenKind[token] = "password_reset"
       /\ \E new_password \in NewPasswords : password_reset_confirm(token, new_password)

\* what a redemption request for `token` would answer
RedeemResult(toks, time, token) == confirm_result(toks, time, TokenKind[token], token)

\* C14: for both kinds of token, once a redemption has succeeded every later
\* redemption of the same token answers invalid-or-used and changes nothing;
\* a redemption of an unused token after its expires_at answers token-expired,
\* leaves is_used false and neither verifies the email nor changes the
\* password.
C14_SingleUseAndExpiry ==
    /\ [][\A token \in TokenStrings :
            ( /\ RedeemResult(tokens, now, token) = "redeemed"
              /\ Redeem(token) )
            => /\ tokens'[token].is_used
               /\ RedeemResult(tokens', now', token) = "invalid_or_used"]_vars
    /\ [](\A token \in DOMAIN tokens :
            tokens[token].is_used => RedeemResult(tokens, now, token) = "invalid_or_used")
    /\ [](\A token \in DOMAIN tokens :
            (~tokens[token].is_used /\ now > tokens[token].expires_at)
            => RedeemResult(tokens, now, token) = "token_expired")
    /\ [][\A token \in TokenStrings :
            ( /\ RedeemResult(tokens, now, token) \in {"invalid_or_used", "token_expired"}
              /\ Redeem(token) )
            => UNCHANGED <<tokens, is_email_verified, password>>]_vars

\* the email token was redeemed (nothing else verifies the email) and would
\* now be refused as used, while the password token, unused and past its
\* expires_at, is refused as expired with the password untouched
C14_Witness ==
    /\ {"e1", "p1"} \subseteq DOMAIN tokens
    /\ is_email_verified[TokenUser]
    /\ tokens["e1"].is_used
    /\ RedeemResult(tokens, now, "e1") = "invalid_or_used"
    /\ ~tokens["p1"].is_used
    /\ now > tokens["p1"].expires_at
    /\ RedeemResult(tokens, now, "p1") = "token_expired"
    /\ password[TokenUser] = InitialPassword

----------------------------------------------------------------------------
(* C15 *)

\* C15: a token is valid, and its redemption accepted, iff is_used is false
\* and the current time is strictly less than expires_at; at the instant
\* now = expires_at it is not valid.
C15_ValidIffUnusedAndBeforeExpiry ==
    \A token \in DOMAIN tokens :
        LET valid == ~tokens[token].is_used /\ now < tokens[token].expires_at IN
        /\ is_valid(tokens[token], now) <=> valid
        /\ RedeemResult(tokens, now, token) = "redeemed" <=> valid

----------------------------------------------------------------------------
(* Requests served side by side: each handler is a sequence of database    *)
(* reads and writes, and the steps of two workers interleave. No handler   *)
(* opens a transaction or takes a lock.                                    *)

\* KYCSubmissionViewSet.perform_create up to the exists() query: the guard
\* found no active submission, serializer.save comes next
perform_create_check(w, actor, status) ==
    /\ requests[w] = Idle
    /\ perform_create_result(submissions, actor) = "created"
    /\ requests' = [requests EXCEPT ![w] =
                       [op |-> "perform_create", actor |-> actor, status |-> status]]
    /\ UNCHANGED <<kyc_vars, token_vars, kyc_documents>>

\* KYCSubmissionViewSet.perform_create: serializer.save(user=request.user)
perform_create_save(w) ==
    /\ requests[w].op = "perform_create"
    /\ Len(submissions) < MaxSubmissions
    /\ LET instance == NewSubmission(requests[w].actor, NULL, requests[w].status)
           subs == Append(submissions, instance)
       IN /\ submissions' = subs
          /\ is_kyc_verified' = update_user_kyc_status(is_kyc_verified, subs, instance)
    /\ requests' = [requests EXCEPT ![w] = Idle]
    /\ UNCHANGED <<catalog, businesses, owners, tasks, token_vars, kyc_documents>>

\* BusinessProfileViewSet.create_kyb_submission up to the existing_submission
\* query: none was found, KYCSubmission.objects.create comes next
create_kyb_submission_check(w, actor, b) ==
    /\ requests[w] = Idle
    /\ create_kyb_submission_result(submissions, businesses, owners, actor, b) = "created"
    /\ requests' = [requests EXCEPT ![w] =
                       [op |-> "create_kyb_submission", actor |-> actor, business |-> b]]
    /\ UNCHANGED <<kyc_vars, token_vars, kyc_documents>>

\* BusinessProfileViewSet.create_kyb_submission: KYCSubmission.objects.create
create_kyb_submission_create(w) ==
    /\ requests[w].op = "create_kyb_submission"
    /\ Len(submissions) < MaxSubmissions
    /\ LET instance == NewSubmission(requests[w].actor, requests[w].business, "pending")
           subs == Append(submissions, instance)
       IN /\ submissions' = subs
          /\ is_kyc_verified' = update_user_kyc_status(is_kyc_verified, subs, instance)
    /\ requests' = [requests EXCEPT ![w] = Idle]
    /\ UNCHANGED <<catalog, businesses, owners, tasks, token_vars, kyc_documents>>

\* create requests of two workers, step by step
NextCreateRace ==
    \/ \E actor \in Users, b \in Businesses : business_perform_create(actor, b)
           /\ UNCHANGED <<token_vars, requests, kyc_documents>>
    \/ \E w \in Workers, actor \in Users, status \in SubmissionStatuses :
           perform_create_check(w, actor, status)
    \/ \E w \in Workers : perform_create_save(w)
    \/ \E w \in Workers, actor \in Users, b \in Businesses :
           create_kyb_submission_check(w, actor, b)
    \/ \E w \in Workers : create_kyb_submission_create(w)

SpecCreateRace == Init /\ [][NextCreateRace]_vars

----------------------------------------------------------------------------
(* C16 *)

\* two stored submissions have the same owner: the same user for personal
\* submissions, the same business for KYB submissions
SameOwner(s1, s2) ==
    \/ /\ s1.business_profile = NULL
       /\ s2.business_profile = NULL
       /\ s1.user = s2.user
    \/ /\ s1.business_profile # NULL
       /\ s1.business_profile = s2.business_profile

\* C16: under every interleaving of two create-submission requests of one
\* user, or of two create-KYB-submission requests for one business, no owner
\* comes to hold two submissions in {pending, in_review}.
C16_ConcurrentCreatesExclusive ==
    \A i \in StoredIds, j \in StoredIds :
        ( /\ i # j
          /\ SameOwner(submissions[i], submissions[j])
          /\ submissions[i].status \in {"pending", "in_review"} )
        => submissions[j].status \notin {"pending", "in_review"}

----------------------------------------------------------------------------
(* views.py: BusinessProfileViewSet.add_owner, statement by statement *)

\* add_owner up to the already-an-owner query: every check has passed
add_owner_check(w, actor, b, user_id, ownership_type, is_primary_contact) ==
    /\ requests[w] = Idle
    /\ add_owner_result(businesses, owners, actor, b, user_id) = "owner_added"
    /\ requests' = [requests EXCEPT ![w] =
                       [ op                 |-> "add_owner",
                         pc                 |-> IF is_truthy(is_primary_contact)
                                                THEN "update" ELSE "create",
                         business           |-> b,
                         user               |-> user_id,
                         ownership_type     |-> ownership_type,
                         is_primary_contact |-> is_primary_contact ]]
    /\ UNCHANGED <<kyc_vars, token_vars, kyc_documents>>

\* add_owner: business.owners.update(is_primary_contact=False)
add_owner_update(w) ==
    /\ requests[w].op = "add_owner"
    /\ requests[w].pc = "update"
    /\ owners' = [owners EXCEPT ![requests[w].business] =
                     {[o EXCEPT !.is_primary_contact = FALSE] : o \in @}]
    /\ requests' = [requests EXCEPT ![w].pc = "create"]
    /\ UNCHANGED <<catalog, submissions, is_kyc_verified, businesses, tasks, token_vars, kyc_documents>>

\* add_owner: BusinessOwner.objects.create; unique_together (business, user)
\* refuses a second row of the same user
add_owner_create(w) ==
    /\ requests[w].op = "add_owner"
    /\ requests[w].pc = "create"
    /\ LET b == requests[w].business IN
       IF \E o \in owners[b] : o.user = requests[w].user
       THEN UNCHANGED owners
       ELSE owners' = [owners EXCEPT ![b] = @ \cup
                          {[ user               |-> requests[w].user,
                             ownership_type     |-> requests[w].ownership_type,
                             is_primary_contact |->
                                 stored_boolean(requests[w].is_primary_contact) ]}]
    /\ requests' = [requests EXCEPT ![w] = Idle]
    /\ UNCHANGED <<catalog, submissions, is_kyc_verified, businesses, tasks, token_vars, kyc_documents>>

\* add-owner requests of two workers, step by step
NextOwnerRace ==
    \/ \E actor \in Users, b \in Businesses : business_perform_create(actor, b)
           /\ UNCHANGED <<token_vars, requests, kyc_documents>>
    \/ \E w \in Workers, actor \in Users, b \in Businesses, user_id \in UserIdValues,
          ownership_type \in OwnershipTypes, is_primary_contact \in PrimaryContactValues :
           add_owner_check(w, actor, b, user_id, ownership_type, is_primary_contact)
    \/ \E w \in Workers : add_owner_update(w)
    \/ \E w \in Workers : add_owner_create(w)

SpecOwnerRace == Init /\ [][NextOwnerRace]_vars

----------------------------------------------------------------------------
(* C17 *)

\* C17: under every interleaving of two add-owner requests on one business
\* that both ask for is_primary_contact true, once both have finished the
\* business has at most one owner whose is_primary_contact is true.
C17_ConcurrentAddOwnerOnePrimary ==
    (\A w \in Workers : requests[w] = Idle)
    => \A b \in Businesses : Cardinality(PrimaryOwners(owners[b])) <= 1

----------------------------------------------------------------------------
(* views.py: confirm_email_verification and password_reset_confirm,        *)
(* statement by statement                                                  *)

\* the lookup Token.objects.get(token=token, is_used=False) and the
\* is_expired test: the row was found unused and unexpired, the writes follow
confirm_get(w, kind, token, new_password) ==
    /\ requests[w] = Idle
    /\ confirm_result(tokens, now, kind, token) = "redeemed"
    /\ requests' = [requests EXCEPT ![w] =
                       [ op           |-> "confirm",
                         pc           |-> "save_user",
                         kind         |-> kind,
                         token        |-> token,
                         new_password |-> new_password ]]
    /\ UNCHANGED <<kyc_vars, token_vars, kyc_documents>>

\* user.is_email_verified = True; user.save(...), or
\* obj.user.set_password(new_password); obj.user.save()
confirm_save_user(w) ==
    /\ requests[w].op = "confirm"
    /\ requests[w].pc = "save_user"
    /\ LET user == tokens[requests[w].token].user IN
       IF requests[w].kind = "email_verification"
       THEN /\ is_email_verified' = [is_email_verified EXCEPT ![user] = TRUE]
            /\ UNCHANGED password
       ELSE /\ password' = [password EXCEPT ![user] = requests[w].new_password]
            /\ UNCHANGED is_email_verified
    /\ requests' = [requests EXCEPT ![w].pc = "save_token"]
    /\ UNCHANGED <<kyc_vars, tokens, now, kyc_documents>>

\* obj.is_used = True; obj.save(...), then the success response
confirm_save_token(w) ==
    /\ requests[w].op = "confirm"
    /\ requests[w].pc = "save_token"
    /\ tokens' = [tokens EXCEPT ![requests[w].token].is_used = TRUE]
    /\ requests' = [requests EXCEPT ![w] = Idle]
    /\ UNCHANGED <<kyc_vars, now, is_email_verified, password, kyc_documents>>

\* redemption requests of two workers, step by step
NextTokenRace ==
    \/ \E k \in TokenStrings : generate(k, TokenUser)
           /\ UNCHANGED <<kyc_vars, requests, kyc_documents>>
    \/ \E w \in Workers, token \in TokenStrings :
           \E new_password \in (IF TokenKind[token] = "password_reset"
                                 THEN NewPasswords ELSE {NULL}) :
               confirm_get(w, TokenKind[token], token, new_password)
    \/ \E w \in Workers : confirm_save_user(w)
    \/ \E w \in Workers : confirm_save_token(w)

SpecTokenRace == Init /\ [][NextTokenRace]_vars

----------------------------------------------------------------------------
(* C18 *)

\* C18: under every interleaving of two redemption requests for one unused,
\* unexpired token at most one succeeds: a request that marks the token used
\* and answers with success finds the token still unused.
C18_ConcurrentRedemptionExclusive ==
    [][\A w \in Workers :
          confirm_save_token(w) => ~tokens[requests[w].token].is_used]_vars

----------------------------------------------------------------------------
(* models.py: the post_save receivers, statement by statement. A receiver  *)
(* works on the user object its caller holds: the view's submission has    *)
(* its user loaded by the permission check, the task's submission loads    *)
(* the user when the receiver asks for it; user.save writes afterwards.    *)

\* the worker leaves the handler; submit_for_review dispatches the task
\* after submission.save() has returned
finished(w) ==
    /\ requests' = [requests EXCEPT ![w] = Idle]
    /\ tasks' = IF requests[w].op = "submit_for_review"
                THEN tasks \cup {requests[w].pk}
                ELSE tasks

\* submit_for_review up to submission.save(): the row is stored in_review,
\* the receiver runs next with the user loaded by get_object
submit_for_review_save(w, actor, pk) ==
    /\ requests[w] = Idle
    /\ submit_for_review_result(catalog, submissions, actor, pk) = "submitted"
    /\ submissions' = [submissions EXCEPT ![pk].status = "in_review",
                                          ![pk].submitted_at = now]
    /\ requests' = [requests EXCEPT ![w] =
                       [ op            |-> "submit_for_review",
                         pc            |-> "submission_signal",
                         pk            |-> pk,
                         status        |-> "in_review",
                         user_loaded   |-> TRUE,
                         user_verified |-> is_kyc_verified[submissions[pk].user],
                         value         |-> NULL ]]
    /\ UNCHANGED <<catalog, is_kyc_verified, businesses, owners, tasks, token_vars, kyc_documents>>

\* verify_kyc_submission up to submission.save(): the row is stored with the
\* verdict, the receiver runs next and has the user to load
verify_kyc_submission_save(w, submission_id, is_approved) ==
    /\ requests[w] = Idle
    /\ submission_id \in tasks
    /\ submission_id \in 1..Len(submissions)
    /\ tasks' = tasks \ {submission_id}
    /\ submissions' = [submissions EXCEPT ![submission_id] =
                          verified_submission(@, is_approved)]
    /\ requests' = [requests EXCEPT ![w] =
                       [ op            |-> "verify_kyc_submission",
                         pc            |-> "submission_signal",
                         pk            |-> submission_id,
                         status        |-> IF is_approved THEN "approved" ELSE "rejected",
                         user_loaded   |-> FALSE,
                         user_verified |-> FALSE,
                         value         |-> NULL ]]
    /\ UNCHANGED <<catalog, is_kyc_verified, businesses, owners, token_vars, kyc_documents>>

\* upload_document up to KYCDocument.objects.create: the document is stored,
\* the receiver runs next with the user loaded by get_object
upload_document_create(w, actor, pk, t) ==
    /\ requests[w] = Idle
    /\ upload_document_result(catalog, submissions, actor, pk, t) = "document_created"
    /\ submissions' = [submissions EXCEPT ![pk].documents[t] = "pending"]
    /\ requests' = [requests EXCEPT ![w] =
                       [ op            |-> "upload_document",
                         pc            |-> "document_signal",
                         pk            |-> pk,
                         status        |-> submissions[pk].status,
                         user_loaded   |-> TRUE,
                         user_verified |-> is_kyc_verified[submissions[pk].user],
                         value         |-> NULL ]]
    /\ UNCHANGED <<catalog, is_kyc_verified, businesses, owners, tasks, token_vars, kyc_documents>>

\* `user = instance.user` of a receiver whose caller has not loaded the user
signal_load_user(w) ==
    /\ requests[w].op # "idle"
    /\ ~requests[w].user_loaded
    /\ requests' = [requests EXCEPT
                       ![w].user_loaded = TRUE,
                       ![w].user_verified = is_kyc_verified[submissions[requests[w].pk].user]]
    /\ UNCHANGED <<kyc_vars, token_vars, kyc_documents>>

\* update_user_kyc_status down to the decision: the tests on instance.status
\* and user.is_kyc_verified and the is_still_approved query
update_user_kyc_status_decide(w) ==
    /\ requests[w].op # "idle"
    /\ requests[w].pc = "submission_signal"
    /\ requests[w].user_loaded
    /\ LET user == submissions[requests[w].pk].user
           is_still_approved ==
               \E i \in 1..Len(submissions) :
                   submissions[i].user = user /\ submissions[i].status = "approved"
       IN IF requests[w].status = "approved" /\ ~requests[w].user_verified
          THEN /\ requests' = [requests EXCEPT ![w].pc = "user_save", ![w].value = TRUE]
               /\ UNCHANGED tasks
          ELSE IF requests[w].status # "approved" /\ requests[w].user_verified
                  /\ ~is_still_approved
          THEN /\ requests' = [requests EXCEPT ![w].pc = "user_save", ![w].value = FALSE]
               /\ UNCHANGED tasks
          ELSE finished(w)
    /\ UNCHANGED <<catalog, submissions, is_kyc_verified, businesses, owners, token_vars, kyc_documents>>

\* update_kyc_verification_on_document_change down to the decision: the
\* queries for the required and the approved documents and the tests
update_kyc_verification_on_document_change_decide(w) ==
    /\ requests[w].op # "idle"
    /\ requests[w].pc = "document_signal"
    /\ requests[w].user_loaded
    /\ LET submission == submissions[requests[w].pk]
           required_docs == get_required_documents(catalog, submission)
           approved_docs == {t \in required_docs : submission.documents[t] = "approved"}
           all_required_approved == Cardinality(approved_docs) = Cardinality(required_docs)
       IN IF all_required_approved /\ ~requests[w].user_verified
          THEN /\ requests' = [requests EXCEPT ![w].pc = "user_save", ![w].value = TRUE]
               /\ UNCHANGED tasks
          ELSE IF ~all_required_approved /\ requests[w].user_verified
          THEN /\ requests' = [requests EXCEPT ![w].pc = "user_save", ![w].value = FALSE]
               /\ UNCHANGED tasks
          ELSE finished(w)
    /\ UNCHANGED <<catalog, submissions, is_kyc_verified, businesses, owners, token_vars, kyc_documents>>

\* user.save(update_fields=['is_kyc_verified']) of either receiver
user_save(w) ==
    /\ requests[w].op # "idle"
    /\ requests[w].pc = "user_save"
    /\ is_kyc_verified' = [is_kyc_verified EXCEPT
                              ![submissions[requests[w].pk].user] = requests[w].value]
    /\ finished(w)
    /\ UNCHANGED <<catalog, submissions, businesses, owners, token_vars, kyc_documents>>

\* the catalog is any the administrators may have set up and stays fixed;
\* submissions are created in one step; uploads, submit-for-review and the
\* verification task of two workers run step by step
NextSignalRace ==
    \/ \E actor \in Users : perform_create(actor, "pending")
           /\ UNCHANGED <<token_vars, requests, kyc_documents>>
    \/ \E actor \in Users, b \in Businesses : business_perform_create(actor, b)
           /\ UNCHANGED <<token_vars, requests, kyc_documents>>
    \/ \E actor \in Users, b \in Businesses : create_kyb_submission(actor, b)
           /\ UNCHANGED <<token_vars, requests, kyc_documents>>
    \/ \E w \in Workers, actor \in Users, pk \in SubmissionIds, t \in DocTypes :
           upload_document_create(w, actor, pk, t)
    \/ \E w \in Workers, actor \in Users, pk \in SubmissionIds :
           submit_for_review_save(w, actor, pk)
    \/ \E w \in Workers, id \in SubmissionIds, is_approved \in SimulatedVerdicts :
           verify_kyc_submission_save(w, id, is_approved)
    \/ \E w \in Workers : signal_load_user(w)
    \/ \E w \in Workers : update_user_kyc_status_decide(w)
    \/ \E w \in Workers : update_kyc_verification_on_document_change_decide(w)
    \/ \E w \in Workers : user_save(w)

SpecSignalRace == InitAnyCatalog /\ [][NextSignalRace]_vars

----------------------------------------------------------------------------
(* C19 *)

\* worker w's receiver finishes in this step, with or without a write
ReceiverCompletes(w) ==
    /\ requests[w].op # "idle"
    /\ requests'[w] = Idle
    /\ \/ update_user_kyc_status_decide(w)
       \/ update_kyc_verification_on_document_change_decide(w)
       \/ user_save(w)

\* the flags the receiver of worker w would leave if it ran in one piece on
\* the stored state
RecomputedFromStored(w) ==
    IF requests[w].op = "upload_document"
    THEN update_kyc_verification_on_document_change(
             is_kyc_verified, catalog, submissions[requests[w].pk])
    ELSE update_user_kyc_status(is_kyc_verified, submissions, submissions[requests[w].pk])

\* C19: when saves of one user's documents and submissions run side by side,
\* the recomputations behave as if serialized: once the last of them has
\* finished, is_kyc_verified is what that recomputation gives on the stored
\* state (nothing is lost to a stale read of the user or of the documents).
C19_RecomputationsSerialized ==
    [][\A w \in Workers :
          ( /\ ReceiverCompletes(w)
            /\ \A v \in Workers \ {w} : requests[v] = Idle )
          => is_kyc_verified' = RecomputedFromStored(w)]_vars

----------------------------------------------------------------------------
(* C20 *)

\* the statuses the lifecycle ends in
TerminalStatuses == {"approved", "rejected"}

\* C20: when verify_kyc_submission runs on a submission whose status is already
\* approved or rejected, the submission's status and rejection_reason and its
\* user's is_kyc_verified are the same after the run as before it.  The code
\* does not satisfy it: the task never reads the current status and saves
\* approved over a rejection, and the save's signal then verifies the user.
C20_TaskIdempotentOnTerminal ==
    [][\A submission_id \in tasks \cap StoredIds, is_approved \in SimulatedVerdicts :
          ( /\ verify_kyc_submission(submission_id, is_approved)
            /\ submissions[submission_id].status \in TerminalStatuses )
          => /\ submissions'[submission_id].status = submissions[submission_id].status
             /\ submissions'[submission_id].rejection_reason =
                    submissions[submission_id].rejection_reason
             /\ is_kyc_verified'[submissions[submission_id].user] =
                    is_kyc_verified[submissions[submission_id].user]
      ]_vars

----------------------------------------------------------------------------
(* Failing runs of the verification task *)

\* the stored submissions when the verification call raises: the lookup has
\* run and the call comes before any assignment or save() of the task
stored_after_failed_call_rejecting(subs, submission_id) ==
    [subs EXCEPT ![submission_id].status = "rejected"]

stored_after_failed_call(subs, submission_id) ==
    subs

\* verify_kyc_submission when the verification call raises: the exception
\* leaves the task before submission.save(), and the message is not redelivered
verify_kyc_submission_raises(submission_id) ==
    /\ submission_id \in tasks
    /\ submission_exists(submissions, submission_id)
    /\ tasks' = tasks \ {submission_id}
    /\ submissions' = stored_after_failed_call(submissions, submission_id)
    /\ UNCHANGED <<catalog, is_kyc_verified, businesses, owners>>

\* DELETE /kyc-submissions/{pk}/ (ModelViewSet.destroy): the row and its
\* documents are deleted; a queued verification message stays queued
destroy(actor, pk) ==
    /\ get_object_result(submissions, actor, pk) = "ok"
    /\ submissions' = [submissions EXCEPT ![pk] = DeletedSubmission]
    /\ UNCHANGED <<catalog, is_kyc_verified, businesses, owners, tasks>>

\* submissions are created, filled, submitted and deleted; the task runs to
\* its end, fails at the call, or fails at the lookup
NextTaskFailure ==
    \/ \E actor \in Users : perform_create(actor, "pending")
           /\ UNCHANGED <<token_vars, requests, kyc_documents>>
    \/ \E actor \in Users, pk \in SubmissionIds, t \in DocTypes : upload_document(actor, pk, t)
           /\ UNCHANGED <<token_vars, requests, kyc_documents>>
    \/ \E actor \in Users, pk \in SubmissionIds : submit_for_review(actor, pk)
           /\ UNCHANGED <<token_vars, requests, kyc_documents>>
    \/ \E actor \in Users, b \in Businesses : business_perform_create(actor, b)
           /\ UNCHANGED <<token_vars, requests, kyc_documents>>
    \/ \E actor \in Users, b \in Businesses : create_kyb_submission(actor, b)
           /\ UNCHANGED <<token_vars, requests, kyc_documents>>
    \/ \E actor \in Users, pk \in SubmissionIds : destroy(actor, pk)
           /\ UNCHANGED <<token_vars, requests, kyc_documents>>
    \/ \E id \in SubmissionIds, is_approved \in SimulatedVerdicts :
           verify_kyc_submission(id, is_approved)
           /\ UNCHANGED <<token_vars, requests, kyc_documents>>
    \/ \E id \in SubmissionIds : verify_kyc_submission_raises(id)
           /\ UNCHANGED <<token_vars, requests, kyc_documents>>

SpecTaskFailure == Init /\ [][NextTaskFailure]_vars

----------------------------------------------------------------------------
(* C21 *)

\* a run of the verification task for `submission_id` that fails: the call
\* raises, or the lookup finds no submission
FailedRun(submission_id) ==
    \/ verify_kyc_submission_raises(submission_id)
    \/ /\ ~submission_exists(submissions, submission_id)
       /\ \E is_approved \in SimulatedVerdicts :
              verify_kyc_submission(submission_id, is_approved)

\* C21: a failing run of the verification task commits no change: every
\* submission keeps its status (one in in_review stays in in_review) and its
\* other fields, and no user's is_kyc_verified changes.
C21_FailedTaskCommitsNothing ==
    [][\A submission_id \in SubmissionIds :
          FailedRun(submission_id)
          => /\ submissions' = submissions
             /\ is_kyc_verified' = is_kyc_verified
      ]_vars

\* a submission whose run failed at the call is in in_review with no message
\* queued, next to a deleted submission whose message was consumed
C21_Witness ==
    /\ tasks = {}
    /\ \E id \in StoredIds : submissions[id] = DeletedSubmission
    /\ \E id \in StoredIds : submissions[id].status = "in_review"

----------------------------------------------------------------------------
(* C22 *)

\* C22: every authenticated user, admin or not, may create a submission; the
\* owner of a submission and every admin may upload documents to it and submit
\* it for review; a non-admin who does not own it may do neither.  The code
\* does not satisfy it: IsOwnerOrAdmin.has_permission lets only admins send
\* a request whose method is not a safe one.
C22_WhoMayCreateUploadSubmit ==
    \A actor \in Users :
        /\ perform_create_result(submissions, actor) # "forbidden"
        /\ \A pk \in StoredIds :
              get_object_result(submissions, actor, pk) = "ok"
                  <=> (is_admin(actor) \/ submissions[pk].user = actor)

----------------------------------------------------------------------------
(* C23 *)

\* the outcomes with which a request is refused for who the actor is
Refusals == {"forbidden", "not_found"}

\* C23: on a business, add-owner admits an actor exactly when the actor is an
\* admin or an owner of the business with is_primary_contact true, and
\* create-KYB-submission admits an actor exactly when the actor is an admin or
\* an owner of the business; an actor who is not admitted changes nothing.
\* The code does not satisfy it: IsOwnerOrAdmin.has_permission refuses the
\* POST of every non-admin, owners included.
C23_WhoMayManageBusiness ==
    \A actor \in Users, b \in businesses :
        /\ \A user_id \in UserIdValues :
              add_owner_result(businesses, owners, actor, b, user_id) \notin Refusals
                  <=> \/ is_admin(actor)
                      \/ \E o \in owners[b] : o.user = actor /\ o.is_primary_contact
        /\ create_kyb_submission_result(submissions, businesses, owners, actor, b)
                  \notin Refusals
              <=> \/ is_admin(actor)
                  \/ \E o \in owners[b] : o.user = actor

----------------------------------------------------------------------------
(* C24 *)

\* C24: add-owner for a user who already owns the business fails with the
\* already-owner error and changes nothing, the is_primary_contact flags of
\* the existing owners included, also when the request asks for
\* is_primary_contact true; so a business never has two owner records of one
\* user.
C24_AlreadyOwnerChangesNothing ==
    /\ [](\A b \in Businesses : \A o1, o2 \in owners[b] : o1.user = o2.user => o1 = o2)
    /\ [](\A actor \in Users, b \in businesses, user_id \in Users :
            ( /\ add_owner_result(businesses, owners, actor, b, user_id) \notin Refusals
              /\ \E o \in owners[b] : o.user = user_id )
            => add_owner_result(businesses, owners, actor, b, user_id) = "already_owner")
    /\ [][\A actor \in Users, b \in Businesses, user_id \in Users,
            ownership_type \in OwnershipTypes, is_primary_contact \in PrimaryContactValues :
            ( /\ \E o \in owners[b] : o.user = user_id
              /\ add_owner(actor, b, user_id, ownership_type, is_primary_contact) )
            => UNCHANGED <<owners, businesses, submissions>>]_vars

\* a1 is the primary owner and u1 a director who is not: an add-owner of u1
\* by a1 meets the already-owner error
C24_Witness ==
    \E b \in businesses :
        /\ add_owner_result(businesses, owners, "a1", b, "u1") = "already_owner"
        /\ \E o \in owners[b] : o.user = "a1" /\ o.is_primary_contact
        /\ \E o \in owners[b] :
               o.user = "u1" /\ ~o.is_primary_contact /\ o.ownership_type = "director"

----------------------------------------------------------------------------
(* C25 *)

\* a step of one of the two admin bulk actions on the submissions `queryset`
BulkAction(queryset) ==
    \E actor \in Users :
        \/ approve_submissions(actor, queryset)
        \/ reject_submissions(actor, queryset)

\* C25: a change of a submission's status by the admin bulk approve or bulk
\* reject action is followed by the recomputation of the owning user's
\* verified flag: right after the action the flag of the user of every
\* selected submission is what update_user_kyc_status gives on the new
\* statuses.  The code does not satisfy it: queryset.update() sends no
\* post_save signal, so the flag is not recomputed.
C25_BulkActionRecomputes ==
    [][\A queryset \in SUBSET StoredIds :
          BulkAction(queryset)
          => \A pk \in queryset :
                 is_kyc_verified'[submissions[pk].user] =
                     update_user_kyc_status(is_kyc_verified, submissions',
                                            submissions'[pk])[submissions[pk].user]
      ]_vars

----------------------------------------------------------------------------
(* C26 *)

\* BusinessProfile.is_kyb_verified: the field has the default False, is
\* read-only in BusinessProfileSerializer, and no view, signal receiver, task
\* or admin action assigns it
is_kyb_verified == [b \in Businesses |-> FALSE]

\* some submission of business `b` has every currently required type approved
SomeKybSubmissionFullyApproved(cat, subs, b) ==
    \E i \in 1..Len(subs) :
        /\ subs[i].business_profile = b
        /\ \A t \in RequiredNow(cat, subs[i]) : subs[i].documents[t] = "approved"

\* a step that changes the status of a submission or of a document
StatusMutation ==
    \/ SaveStep /\ submissions' # submissions
    \/ \E queryset \in SUBSET StoredIds : BulkAction(queryset)

\* C26: after every status mutation of a KYB submission or of one of its
\* documents, the business's is_kyb_verified is true iff at least one of the
\* business's submissions has its full current required document set approved.
\* The code does not satisfy it: nothing ever sets is_kyb_verified.
C26_KybVerifiedIffFullyApproved ==
    [][StatusMutation
       => \A b \in businesses' :
              is_kyb_verified[b]
                  <=> SomeKybSubmissionFullyApproved(catalog', submissions', b)
      ]_vars

----------------------------------------------------------------------------
(* Requests that fail *)

\* businesses with their owners and submissions; add-owner also receives the
\* is_primary_contact values for which the insert of the owner row raises
NextFailing ==
    \/ \E actor \in Users : perform_create(actor, "pending")
           /\ UNCHANGED <<token_vars, requests, kyc_documents>>
    \/ \E actor \in Users, pk \in SubmissionIds, t \in DocTypes : upload_document(actor, pk, t)
           /\ UNCHANGED <<token_vars, requests, kyc_documents>>
    \/ \E actor \in Users, pk \in SubmissionIds : submit_for_review(actor, pk)
           /\ UNCHANGED <<token_vars, requests, kyc_documents>>
    \/ \E actor \in Users, b \in Businesses : business_perform_create(actor, b)
           /\ UNCHANGED <<token_vars, requests, kyc_documents>>
    \/ \E actor \in Users, b \in Businesses, user_id \in UserIdValues,
          ownership_type \in OwnershipTypes, is_primary_contact \in PrimaryContactInputs :
           add_owner(actor, b, user_id, ownership_type, is_primary_contact)
           /\ UNCHANGED <<token_vars, requests, kyc_documents>>

SpecFailing == Init /\ [][NextFailing]_vars

----------------------------------------------------------------------------
(* C27 *)

\* an add-owner request that ends with an error response
AddOwnerFails(actor, b, user_id, is_primary_contact) ==
    \/ add_owner_result(businesses, owners, actor, b, user_id) # "owner_added"
    \/ create_raises(is_primary_contact)

\* C27: an operation that fails commits no partial mutation: an add-owner
\* request that fails, in particular one asking for is_primary_contact true
\* whose creation of the owner record fails, leaves the owners and their
\* is_primary_contact flags as they were, and a rejected upload-document or
\* submit-for-review leaves the submissions and their documents as they were.
\* The code does not satisfy it: add_owner clears the flags of the existing
\* owners before the insert, outside any transaction.
C27_NoPartialMutation ==
    [][ /\ \A actor \in Users, b \in Businesses, user_id \in UserIdValues,
             ownership_type \in OwnershipTypes, is_primary_contact \in PrimaryContactInputs :
             ( /\ AddOwnerFails(actor, b, user_id, is_primary_contact)
               /\ add_owner(actor, b, user_id, ownership_type, is_primary_contact) )
             => UNCHANGED owners
        /\ \A actor \in Users, pk \in SubmissionIds, t \in DocTypes :
             ( /\ upload_document_result(catalog, submissions, actor, pk, t)
                      # "document_created"
               /\ upload_document(actor, pk, t) )
             => UNCHANGED <<submissions, is_kyc_verified, tasks>>
        /\ \A actor \in Users, pk \in SubmissionIds :
             ( /\ submit_for_review_result(catalog, submissions, actor, pk) # "submitted"
               /\ submit_for_review(actor, pk) )
             => UNCHANGED <<submissions, is_kyc_verified, tasks>>
      ]_vars

----------------------------------------------------------------------------
(* C28 *)

\* a run of the verification task for `id` that gets through the call
CompletedRun(id) ==
    /\ \E is_approved \in SimulatedVerdicts : verify_kyc_submission(id, is_approved)
    /\ UNCHANGED <<token_vars, requests, kyc_documents>>

\* a run of the verification task for `id` that fails at the call
FailingRun(id) ==
    /\ verify_kyc_submission_raises(id)
    /\ UNCHANGED <<token_vars, requests, kyc_documents>>

\* the executor is fair: a queued message is delivered, and a run whose call
\* can succeed again and again does succeed once
SpecTaskLive ==
    /\ Init
    /\ [][NextTaskFailure]_vars
    /\ \A id \in SubmissionIds :
           /\ WF_vars(CompletedRun(id) \/ FailingRun(id))
           /\ SF_vars(CompletedRun(id))

\* submission `id` is stored with status in_review
InReview(id) ==
    submission_exists(submissions, id) /\ submissions[id].status = "in_review"

\* submission `id` has left in_review for good, or is gone
Settled(id) ==
    \/ ~submission_exists(submissions, id)
    \/ submissions[id].status \in TerminalStatuses

\* C28: under a fair executor whose verification call does not fail for
\* ever, every submission that enters in_review through submit-for-review
\* eventually reaches approved or rejected.  The code does not satisfy it:
\* a run that fails is not retried, so the submission stays in in_review.
C28_InReviewEventuallySettled ==
    \A id \in SubmissionIds : InReview(id) ~> Settled(id)

----------------------------------------------------------------------------
(* models.py: the writes of the post_save receivers *)

\* user.save(update_fields=['is_kyc_verified']) with the value assigned before
UserSave(user, value) ==
    [ user |-> user, update_fields |-> {"is_kyc_verified"}, is_kyc_verified |-> value ]

\* a submission receiver that saves the user on every run
update_user_kyc_status_saves_always(verified, subs, instance) ==
    LET user == instance.user IN
    {UserSave(user, \E i \in 1..Len(subs) :
                        subs[i].user = user /\ subs[i].status = "approved")}

\* the saves of the user that update_user_kyc_status performs
update_user_kyc_status_saves(verified, subs, instance) ==
    LET user == instance.user IN
    IF instance.status = "approved" /\ ~verified[user]
    THEN {UserSave(user, TRUE)}
    ELSE IF instance.status # "approved" /\ verified[user]
    THEN LET is_still_approved ==
                 \E i \in 1..Len(subs) :
                     subs[i].user = user /\ subs[i].status = "approved"
         IN IF ~is_still_approved THEN {UserSave(user, FALSE)} ELSE {}
    ELSE {}

\* the saves of the user that update_kyc_verification_on_document_change performs
update_kyc_verification_on_document_change_saves(verified, cat, submission) ==
    LET user == submission.user
        required_docs == get_required_documents(cat, submission)
        approved_docs == {t \in required_docs : submission.documents[t] = "approved"}
        all_required_approved == Cardinality(approved_docs) = Cardinality(required_docs)
    IN IF all_required_approved /\ ~verified[user]
       THEN {UserSave(user, TRUE)}
       ELSE IF ~all_required_approved /\ verified[user]
       THEN {UserSave(user, FALSE)}
       ELSE {}

\* the users table after the saves
after_saves(verified, saves) ==
    [u \in Users |-> IF \E save \in saves : save.user = u
                     THEN (CHOOSE save \in saves : save.user = u).is_kyc_verified
                     ELSE verified[u]]

----------------------------------------------------------------------------
(* C29 *)

\* the saves are at most one save, of the submission's user, of the field
\* is_kyc_verified alone, with a value that differs from the stored one
WritesOnlyAChange(saves, user) ==
    /\ Cardinality(saves) <= 1
    /\ \A save \in saves :
          /\ save.user = user
          /\ save.update_fields = {"is_kyc_verified"}
          /\ save.is_kyc_verified # is_kyc_verified[user]

\* C29: a recomputation of the verified flag, by either receiver, writes the
\* user only when the computed value differs from the user's current
\* is_kyc_verified; when it is the same nothing is written; and a write
\* carries no other field of the user than is_kyc_verified.
C29_WritesOnlyOnChange ==
    \A pk \in StoredIds :
        LET instance == submissions[pk]
            submission_saves ==
                update_user_kyc_status_saves(is_kyc_verified, submissions, instance)
            document_saves ==
                update_kyc_verification_on_document_change_saves(
                    is_kyc_verified, catalog, instance)
        IN /\ WritesOnlyAChange(submission_saves, instance.user)
           /\ WritesOnlyAChange(document_saves, instance.user)
           /\ after_saves(is_kyc_verified, submission_saves)
                  = update_user_kyc_status(is_kyc_verified, submissions, instance)
           /\ after_saves(is_kyc_verified, document_saves)
                  = update_kyc_verification_on_document_change(
                        is_kyc_verified, catalog, instance)

\* a1 is verified and has an approved submission: the recomputation for that
\* submission finds the value the user already has and saves nothing, while
\* the recomputation for a1's other, pending submission does save
C29_Witness ==
    \E pk, other \in StoredIds :
        /\ submissions[pk].user = "a1" /\ submissions[pk].status = "approved"
        /\ is_kyc_verified["a1"]
        /\ update_user_kyc_status_saves(is_kyc_verified, submissions, submissions[pk]) = {}
        /\ submissions[other].user = "a1" /\ submissions[other].status = "pending"
        /\ update_kyc_verification_on_document_change_saves(
               is_kyc_verified, catalog, submissions[other]) # {}

----------------------------------------------------------------------------
(* C30 *)

\* a step of the verification task or of an admin bulk action
ReviewStep ==
    \/ \E id \in SubmissionIds, is_approved \in SimulatedVerdicts :
           verify_kyc_submission(id, is_approved)
    \/ \E queryset \in SUBSET StoredIds : BulkAction(queryset)

\* C30: a submission that the verification task or an admin action brings to
\* approved or rejected has reviewed_at set, and one brought to rejected has
\* a rejection_reason.  The code does not satisfy it: the task never assigns
\* reviewed_at, and reject_submissions assigns no rejection_reason.
C30_ReviewFieldsSet ==
    [][ReviewStep
       => \A pk \in StoredIds :
              /\ submissions'[pk].status \in TerminalStatuses
                     => submissions'[pk].reviewed_at # NULL
              /\ submissions'[pk].status = "rejected"
                     => submissions'[pk].rejection_reason # NULL
      ]_vars

----------------------------------------------------------------------------
(* models.py: KYCDocument rows; views.py: upload_document with its file *)

\* the KYCDocument row that KYCDocument.objects.create(submission=...,
\* document_type=..., file=...) stores: save() runs _validate_file, which
\* assigns file_size_bytes; file_hash is assigned nowhere
new_document(rows, pk, t, file) ==
    [ id              |-> Cardinality(rows) + 1,
      submission      |-> pk,
      document_type   |-> t,
      file            |-> file,
      status          |-> "pending",
      file_size_bytes |-> file.size,
      file_hash       |-> NULL ]

\* KYCSubmissionViewSet.upload_document with the uploaded file and the row
\* it stores
upload_document_store(actor, pk, t, file) ==
    IF upload_document_request_result(catalog, submissions, actor, pk, t, file)
           = "document_created"
    THEN /\ upload_document(actor, pk, t)
         /\ kyc_documents' = kyc_documents \cup {new_document(kyc_documents, pk, t, file)}
    ELSE UNCHANGED <<kyc_vars, kyc_documents>>

\* the uploads of the document table: two that pass, one too large, one of
\* a type that is not allowed
DocumentFiles ==
    { [size |-> 1,               name |-> <<"a", ".">> \o PdfLower],
      [size |-> 1024 * 1024,     name |-> <<"a", ".">> \o PdfUpper],
      [size |-> 1024 * 1024 + 1, name |-> <<"a", ".">> \o PdfLower],
      [size |-> 1,               name |-> <<"a", ".">> \o Jpg] }

\* both types active, for every account, of at most 1 MB and of type pdf
InitDocuments ==
    /\ catalog = [t \in DocTypes |->
                    [ is_active      |-> TRUE,
                      is_required    |-> TRUE,
                      applicable_to  |-> "both",
                      required_roles |-> {},
                      max_file_size_mb   |-> 1,
                      allowed_file_types |-> <<PdfLower>> ]]
    /\ submissions = << >>
    /\ is_kyc_verified = [u \in Users |-> FALSE]
    /\ businesses = {}
    /\ owners = [b \in Businesses |-> {}]
    /\ tasks = {}
    /\ InitRest

\* submissions are created, filled with files, submitted and verified
NextDocuments ==
    \/ \E actor \in Users : perform_create(actor, "pending")
           /\ UNCHANGED <<token_vars, requests, kyc_documents>>
    \/ \E actor \in Users, pk \in SubmissionIds, t \in DocTypes, file \in DocumentFiles :
           upload_document_store(actor, pk, t, file)
           /\ UNCHANGED <<token_vars, requests>>
    \/ \E actor \in Users, pk \in SubmissionIds : submit_for_review(actor, pk)
           /\ UNCHANGED <<token_vars, requests, kyc_documents>>
    \/ \E id \in SubmissionIds, is_approved \in SimulatedVerdicts :
           verify_kyc_submission(id, is_approved)
           /\ UNCHANGED <<token_vars, requests, kyc_documents>>

SpecDocuments == InitDocuments /\ [][NextDocuments]_vars

----------------------------------------------------------------------------
(* C31 *)

\* the rows of submission `pk` for document type `t`
DocumentsOf(rows, pk, t) ==
    {row \in rows : row.submission = pk /\ row.document_type = t}

\* C31: after any sequence of upload-document operations a submission holds
\* at most one document per document type, and a second upload of a type
\* already attached neither adds a document nor replaces or alters the first.
C31_OneDocumentPerType ==
    /\ [](\A pk \in StoredIds, t \in DocTypes :
            /\ Cardinality(DocumentsOf(kyc_documents, pk, t)) <= 1
            /\ (DocumentsOf(kyc_documents, pk, t) # {}) <=> (t \in Attached(submissions[pk])))
    /\ [][\A actor \in Users, pk \in StoredIds, t \in DocTypes, file \in DocumentFiles :
            ( /\ DocumentsOf(kyc_documents, pk, t) # {}
              /\ upload_document_store(actor, pk, t, file) )
            => UNCHANGED <<kyc_documents, submissions, is_kyc_verified>>]_vars

\* submission 1 is pending and holds the 1-byte a.pdf as its PassportID: the
\* upload of the 1 MB a.PDF for the same type passes every validation and
\* meets the row that is there
C31_Witness ==
    /\ Len(submissions) >= 1
    /\ submissions[1].status = "pending"
    /\ \E row \in DocumentsOf(kyc_documents, 1, "PassportID") : row.file.size = 1
    /\ \E file \in DocumentFiles :
          /\ file.size = 1024 * 1024
          /\ upload_document_request_result(catalog, submissions, "a1", 1, "PassportID", file)
                 = "integrity_error"

----------------------------------------------------------------------------
(* tasks.py: expire_old_tokens with any age *)

\* the ages, in hours, the sweep is run with
SweepAges == {1, ExpiryHours, SweepHours}

\* tokens are generated, redeemed and swept with any of the ages
NextSweep ==
    \/ \E k \in TokenStrings : generate(k, TokenUser)
           /\ UNCHANGED <<kyc_vars, requests, kyc_documents>>
    \/ \E token \in TokenStrings \cup {UnknownToken} : confirm_email_verification(token)
           /\ UNCHANGED <<kyc_vars, requests, kyc_documents>>
    \/ \E token \in TokenStrings \cup {UnknownToken}, new_password \in NewPasswords :
           password_reset_confirm(token, new_password)
           /\ UNCHANGED <<kyc_vars, requests, kyc_documents>>
    \/ \E hours \in SweepAges : expire_old_tokens(hours)
           /\ UNCHANGED <<kyc_vars, requests, kyc_documents>>
    \/ Tick
           /\ UNCHANGED <<kyc_vars, requests, kyc_documents>>

SpecSweep == Init /\ [][NextSweep]_vars

----------------------------------------------------------------------------
(* C32 *)

\* C32: after expire_old_tokens(h) has run, every token of either kind that
\* was created more than h hours before the run has is_used true and is
\* refused by a redemption, and every token created less than h hours before
\* the run has the is_used and the expires_at it had.
C32_SweepMarksOldTokensOnly ==
    [][\A hours \in SweepAges :
          expire_old_tokens(hours)
          => \A token \in DOMAIN tokens :
                 /\ now - tokens[token].created_at > hours
                       => /\ tokens'[token].is_used
                          /\ RedeemResult(tokens', now', token) = "invalid_or_used"
                 /\ now - tokens[token].created_at < hours
                       => /\ tokens'[token].is_used = tokens[token].is_used
                          /\ tokens'[token].expires_at = tokens[token].expires_at
      ]_vars

\* 25 hours after the email token and 24 hours after the password token were
\* generated, a sweep of age 24 has marked the first, which was never
\* redeemed, and left the second unused
C32_Witness ==
    /\ {"e1", "p1"} \subseteq DOMAIN tokens
    /\ now = 25
    /\ tokens["e1"].created_at = 0
    /\ tokens["e1"].is_used
    /\ ~is_email_verified[TokenUser]
    /\ tokens["p1"].created_at = 1
    /\ ~tokens["p1"].is_used

----------------------------------------------------------------------------
(* views.py: submit_for_review with a running clock *)

\* the hours the clock runs while submissions are made and submitted
MaxSubmitTime == 3

\* submissions are created, completed and submitted while time passes
NextSubmit ==
    \/ \E actor \in Users : perform_create(actor, "pending")
           /\ UNCHANGED <<token_vars, requests, kyc_documents>>
    \/ \E actor \in Users, pk \in SubmissionIds, t \in DocTypes : upload_document(actor, pk, t)
           /\ UNCHANGED <<token_vars, requests, kyc_documents>>
    \/ \E actor \in Users, pk \in SubmissionIds : submit_for_review(actor, pk)
           /\ UNCHANGED <<token_vars, requests, kyc_documents>>
    \/ \E id \in SubmissionIds, is_approved \in SimulatedVerdicts :
           verify_kyc_submission(id, is_approved)
           /\ UNCHANGED <<token_vars, requests, kyc_documents>>
    \/ /\ now < MaxSubmitTime
       /\ Tick
       /\ UNCHANGED <<kyc_vars, requests, kyc_documents>>

SpecSubmit == Init /\ [][NextSubmit]_vars

----------------------------------------------------------------------------
(* C33 *)

\* C33: a successful submit_for_review stores status in_review and
\* submitted_at equal to the time of the call and adds one
\* verify_kyc_submission task for the submission, which had none; the task is
\* there only once the status is stored (no dispatched submission is pending);
\* a refused submit_for_review (not pending, documents missing, not found)
\* changes neither the tasks nor the rows.
C33_SubmitStoresThenDispatchesOnce ==
    /\ [](\A pk \in tasks :
            submission_exists(submissions, pk) => submissions[pk].status # "pending")
    /\ [][\A actor \in Users, pk \in SubmissionIds :
            submit_for_review(actor, pk)
            => IF submit_for_review_result(catalog, submissions, actor, pk) = "submitted"
               THEN /\ submissions'[pk].status = "in_review"
                    /\ submissions'[pk].submitted_at = now
                    /\ pk \notin tasks
                    /\ tasks' = tasks \cup {pk}
               ELSE UNCHANGED <<submissions, tasks>>
        ]_vars

\* a submission created at hour 0 was submitted at hour 1 and waits for its
\* task
C33_Witness ==
    /\ submission_exists(submissions, 1)
    /\ submissions[1].status = "in_review"
    /\ submissions[1].submitted_at = 1
    /\ tasks = {1}
    /\ now = 1

----------------------------------------------------------------------------
(* C34 *)

\* C34: every document row made by a successful upload has file_size_bytes
\* equal to the size of the uploaded file and a file_hash that is set.
C34_DocumentMetadataRecorded ==
    \A document \in kyc_documents :
        /\ document.file_size_bytes = document.file.size
        /\ document.file_hash # NULL

----------------------------------------------------------------------------
(* models.py: KYCDocument.save reached without the upload serializer
   (admin.py: KYCDocumentInline) *)

\* KYCDocument.save on a new row: _validate_file, then the insert under
\* unique_together
document_save_result(cat, subs, pk, t, file) ==
    IF ~submission_exists(subs, pk) THEN "does_not_exist"
    ELSE IF model_validate_file(cat, t, file) # "ok" THEN "value_error"
    ELSE IF subs[pk].documents[t] # NoDocument THEN "integrity_error"
    ELSE "document_created"

\* a document saved from the inline of the submission's admin page; post_save
\* runs update_kyc_verification_on_document_change
document_save(pk, t, file) ==
    /\ IF document_save_result(catalog, submissions, pk, t, file) = "document_created"
       THEN LET subs == [submissions EXCEPT ![pk].documents[t] = "pending"] IN
            /\ submissions' = subs
            /\ is_kyc_verified' =
                   update_kyc_verification_on_document_change(is_kyc_verified, catalog, subs[pk])
            /\ kyc_documents' = kyc_documents \cup {new_document(kyc_documents, pk, t, file)}
       ELSE UNCHANGED <<submissions, is_kyc_verified, kyc_documents>>
    /\ UNCHANGED <<catalog, businesses, owners, tasks>>

\* documents arrive through the upload view and through the admin inline,
\* under any file constraints and is_active flags
NextSavePath ==
    \/ \E actor \in Users : perform_create(actor, "pending")
           /\ UNCHANGED <<token_vars, requests, kyc_documents>>
    \/ \E actor \in Users, pk \in SubmissionIds, t \in DocTypes, file \in DocumentFiles :
           upload_document_store(actor, pk, t, file)
           /\ UNCHANGED <<token_vars, requests>>
    \/ \E pk \in SubmissionIds, t \in DocTypes, file \in DocumentFiles :
           document_save(pk, t, file)
           /\ UNCHANGED <<token_vars, requests>>

SpecSavePath == InitAnyFileRules /\ [][NextSavePath]_vars

----------------------------------------------------------------------------
(* C35 *)

\* C35: the serializer of the upload and KYCDocument.save accept the same
\* (document type, file) pairs: what the serializer accepts passes
\* _validate_file, and a save that bypasses the serializer stores a row only
\* for a pair the serializer accepts (active type, size and extension allowed).
C35_SavePathAcceptsWhatSerializerAccepts ==
    /\ [](\A t \in DocTypes, file \in DocumentFiles :
            serializer_errors(catalog, t, file) = {}
            => model_validate_file(catalog, t, file) = "ok")
    /\ [][\A pk \in SubmissionIds, t \in DocTypes, file \in DocumentFiles :
            (document_save(pk, t, file) /\ kyc_documents' # kyc_documents)
            => serializer_errors(catalog, t, file) = {}
        ]_vars

----------------------------------------------------------------------------
(* C36 *)

\* C36: right after a KYCDocument is saved, is_kyc_verified of the user of the
\* document's submission is true exactly when every type required for that
\* submission has an approved document in that submission; no other
\* submission of the user counts.
C36_DocumentSaveJudgesOwnSubmission ==
    [][\A actor \in Users, pk \in SubmissionIds, t \in DocTypes :
          (/\ upload_document(actor, pk, t)
           /\ upload_document_result(catalog, submissions, actor, pk, t) = "document_created")
          => (is_kyc_verified'[submissions[pk].user]
                <=> \A r \in get_required_documents(catalog, submissions'[pk]) :
                        submissions'[pk].documents[r] = "approved")
      ]_vars

\* a1 has an approved submission and the flag is false after an upload into
\* a new submission whose required types are not approved
C36_Witness ==
    /\ submission_exists(submissions, 1) /\ submission_exists(submissions, 2)
    /\ submissions[1].user = "a1" /\ submissions[2].user = "a1"
    /\ submissions[1].status = "approved"
    /\ submissions[2].status = "pending"
    /\ \E t \in DocTypes : submissions[2].documents[t] = "pending"
    /\ get_required_documents(catalog, submissions[2]) # {}
    /\ ~is_kyc_verified["a1"]

\* the flag is true after an upload into a submission for which no type is
\* required
C36_WitnessEmptyRequiredSet ==
    /\ submission_exists(submissions, 1)
    /\ submissions[1].status = "pending"
    /\ \E t \in DocTypes : submissions[1].documents[t] = "pending"
    /\ get_required_documents(catalog, submissions[1]) = {}
    /\ is_kyc_verified[submissions[1].user]

----------------------------------------------------------------------------
(* C37 *)

\* the flag of the user of submission id after the step, set against the
\* status the step saved
AfterSubmissionSave(id) ==
    LET user == submissions'[id].user
        has_approved == \E i \in 1..Len(submissions') :
                            /\ submissions'[i].user = user
                            /\ submissions'[i].status = "approved"
    IN /\ submissions'[id].status = "approved" => is_kyc_verified'[user]
       /\ (submissions'[id].status # "approved" /\ is_kyc_verified[user])
             => (~is_kyc_verified'[user] <=> ~has_approved)
       /\ (submissions'[id].status # "approved" /\ ~is_kyc_verified[user])
             => ~is_kyc_verified'[user]

----------------------------------------------------------------------------
(* views.py: the two creation guards with two businesses *)

\* the businesses of the runs that compare the guards
GuardBusinesses == {"b1", "b2"}

InitGuards ==
    /\ catalog = [t \in DocTypes |->
                    [ is_active      |-> TRUE,
                      is_required    |-> TRUE,
                      applicable_to  |-> DocTypeApplicableTo[t],
                      required_roles |-> DocTypeRequiredRoles[t],
                      max_file_size_mb   |-> DefaultMaxFileSizeMb,
                      allowed_file_types |-> << >> ]]
    /\ submissions = << >>
    /\ is_kyc_verified = [u \in Users |-> FALSE]
    /\ businesses = {}
    /\ owners = [b \in GuardBusinesses |-> {}]
    /\ tasks = {}
    /\ InitRest

\* personal and KYB submissions are created, submitted and settled
NextGuards ==
    \/ \E actor \in Users : perform_create(actor, "pending")
           /\ UNCHANGED <<token_vars, requests, kyc_documents>>
    \/ \E actor \in Users, b \in GuardBusinesses : business_perform_create(actor, b)
           /\ UNCHANGED <<token_vars, requests, kyc_documents>>
    \/ \E actor \in Users, b \in GuardBusinesses : create_kyb_submission(actor, b)
           /\ UNCHANGED <<token_vars, requests, kyc_documents>>
    \/ \E actor \in Users, pk \in SubmissionIds, t \in DocTypes : upload_document(actor, pk, t)
           /\ UNCHANGED <<token_vars, requests, kyc_documents>>
    \/ \E actor \in Users, pk \in SubmissionIds : submit_for_review(actor, pk)
           /\ UNCHANGED <<token_vars, requests, kyc_documents>>
    \/ \E id \in SubmissionIds, is_approved \in SimulatedVerdicts :
           verify_kyc_submission(id, is_approved)
           /\ UNCHANGED <<token_vars, requests, kyc_documents>>

SpecGuards == InitGuards /\ [][NextGuards]_vars

----------------------------------------------------------------------------
(* C38 *)

\* the pending and in_review submissions whose user is `user`
ActiveOfUser(user) ==
    {i \in 1..Len(submissions) :
        submissions[i].user = user /\ submissions[i].status \in {"pending", "in_review"}}

\* the pending and in_review submissions of business b
ActiveOfGuardBusiness(b) ==
    {i \in 1..Len(submissions) :
        /\ submissions[i].business_profile = b
        /\ submissions[i].status \in {"pending", "in_review"}}

\* C38: a permitted create of a personal submission is refused exactly when
\* the requester has a pending or in_review submission, KYB submissions they
\* created included; a permitted create of a KYB submission is refused
\* exactly when that business has a pending or in_review submission, whatever
\* else the requester has.
C38_GuardScopes ==
    /\ [](\A actor \in Users :
            perform_create_result(submissions, actor) # "forbidden"
            => (perform_create_result(submissions, actor) = "duplicate_active"
                  <=> ActiveOfUser(actor) # {}))
    /\ [](\A actor \in Users, b \in GuardBusinesses :
            create_kyb_submission_result(submissions, businesses, owners, actor, b)
                \in {"duplicate_active", "created"}
            => (create_kyb_submission_result(submissions, businesses, owners, actor, b)
                    = "duplicate_active"
                  <=> ActiveOfGuardBusiness(b) # {}))
    /\ [][\A actor \in Users :
            (perform_create(actor, "pending") /\ ActiveOfUser(actor) # {})
            => UNCHANGED submissions]_vars
    /\ [][\A actor \in Users, b \in GuardBusinesses :
            (/\ create_kyb_submission(actor, b)
             /\ create_kyb_submission_result(submissions, businesses, owners, actor, b)
                    \in {"duplicate_active", "created"}
             /\ ActiveOfGuardBusiness(b) = {})
            => /\ Len(submissions') = Len(submissions) + 1
               /\ submissions'[Len(submissions')].business_profile = b]_vars

\* a1, whose personal submission is pending, created a KYB submission for b1
\* after it, and is refused another personal submission
C38_Witness ==
    /\ Len(submissions) = 2
    /\ submissions[1].user = "a1" /\ submissions[2].user = "a1"
    /\ submissions[1].business_profile = NULL
    /\ submissions[1].status = "pending"
    /\ submissions[2].business_profile = "b1"
    /\ submissions[2].status = "pending"
    /\ perform_create_result(submissions, "a1") = "duplicate_active"

\* a1, whose KYB submission for b1 is in review, created one for b2
C38_WitnessOtherBusiness ==
    /\ Len(submissions) = 2
    /\ submissions[1].user = "a1" /\ submissions[2].user = "a1"
    /\ submissions[1].business_profile = "b1"
    /\ submissions[1].status = "in_review"
    /\ submissions[2].business_profile = "b2"
    /\ submissions[2].status = "pending"

\* a1 has only an active KYB submission and is refused a personal one
C38_WitnessKybBlocksPersonal ==
    /\ Len(submissions) = 1
    /\ submissions[1].user = "a1"
    /\ submissions[1].business_profile = "b1"
    /\ submissions[1].status = "pending"
    /\ perform_create_result(submissions, "a1") = "duplicate_active"

----------------------------------------------------------------------------
(* views.py: request_email_verification and password_reset_request *)

\* User.email
UserEmail == [u \in Users |->
    CASE u = "a1" -> "a1@example.com"
      [] u = "u1" -> "u1@example.com"
      [] OTHER    -> "u2@example.com"]

\* an address no user has
UnknownEmail == "nobody@example.com"

\* User.objects.filter(email=email).first()
user_by_email(email) ==
    IF \E u \in Users : UserEmail[u] = email
    THEN CHOOSE u \in Users : UserEmail[u] = email
    ELSE NULL

\* the row <Token>.objects.create(user=user) inserts: expires_at has no default
token_row_of_create(kind, user) ==
    [ kind       |-> kind,
      user       |-> user,
      is_used    |-> FALSE,
      created_at |-> now,
      expires_at |-> NULL ]

\* the insert of a token row: expires_at is a NOT NULL column
objects_create_result(row) ==
    IF row.expires_at = NULL THEN "integrity_error" ELSE "created"

\* the token strings of a kind that no row holds yet
unissued(kind) == {k \in TokenStrings \ DOMAIN tokens : TokenKind[k] = kind}

\* what one call of password_reset_request answers and does
password_reset_request_outcome(email) ==
    LET user == user_by_email(email) IN
    IF user = NULL
    THEN [ response |-> "200 If the email exists, a reset link has been sent.",
           token_created |-> FALSE, email_dispatched |-> FALSE ]
    ELSE IF objects_create_result(token_row_of_create("password_reset", user)) = "created"
         THEN [ response |-> "200 If the email exists, a reset link has been sent.",
                token_created |-> TRUE, email_dispatched |-> TRUE ]
         ELSE [ response |-> "500 IntegrityError",
                token_created |-> FALSE, email_dispatched |-> FALSE ]

\* what one call of request_email_verification answers and does
request_email_verification_outcome(user) ==
    IF is_email_verified[user]
    THEN [ response |-> "400 Email is already verified.",
           token_created |-> FALSE, email_dispatched |-> FALSE ]
    ELSE IF objects_create_result(token_row_of_create("email_verification", user)) = "created"
         THEN [ response |-> "200 Verification email queued.",
                token_created |-> TRUE, email_dispatched |-> TRUE ]
         ELSE [ response |-> "500 IntegrityError",
                token_created |-> FALSE, email_dispatched |-> FALSE ]

\* the token table after a call with the given outcome: a created row is
\* completed by generate()
tokens_after_request(outcome, kind, user, k) ==
    IF outcome.token_created
    THEN [x \in DOMAIN tokens \cup {k} |->
             IF x = k
             THEN [token_row_of_create(kind, user) EXCEPT !.expires_at = now + ExpiryHours]
             ELSE tokens[x]]
    ELSE tokens

\* worker w answers password_reset_request for the address; requests[w] keeps
\* the answer of its last call
password_reset_request(w, email) ==
    LET outcome == password_reset_request_outcome(email) IN
    /\ requests[w].op \in {"idle", "password_reset_request", "request_email_verification"}
    /\ outcome.token_created => unissued("password_reset") # {}
    /\ \E k \in IF outcome.token_created THEN unissued("password_reset") ELSE {UnknownToken} :
           tokens' = tokens_after_request(outcome, "password_reset", user_by_email(email), k)
    /\ requests' = [requests EXCEPT ![w] =
                       [ op               |-> "password_reset_request",
                         email            |-> email,
                         response         |-> outcome.response,
                         email_dispatched |-> outcome.email_dispatched ]]
    /\ UNCHANGED <<now, is_email_verified, password>>

\* worker w answers request_email_verification of the signed-in user
request_email_verification(w, user) ==
    LET outcome == request_email_verification_outcome(user) IN
    /\ requests[w].op \in {"idle", "password_reset_request", "request_email_verification"}
    /\ outcome.token_created => unissued("email_verification") # {}
    /\ \E k \in IF outcome.token_created THEN unissued("email_verification") ELSE {UnknownToken} :
           tokens' = tokens_after_request(outcome, "email_verification", user, k)
    /\ requests' = [requests EXCEPT ![w] =
                       [ op               |-> "request_email_verification",
                         email            |-> UserEmail[user],
                         response         |-> outcome.response,
                         email_dispatched |-> outcome.email_dispatched ]]
    /\ UNCHANGED <<now, is_email_verified, password>>

\* the addresses a reset is asked for
RequestEmails == {UserEmail[TokenUser], UnknownEmail}

\* tokens are asked for through the views, generated, redeemed and swept
NextTokenRequests ==
    \/ \E w \in Workers, email \in RequestEmails : password_reset_request(w, email)
           /\ UNCHANGED <<kyc_vars, kyc_documents>>
    \/ \E w \in Workers : request_email_verification(w, TokenUser)
           /\ UNCHANGED <<kyc_vars, kyc_documents>>
    \/ \E k \in TokenStrings : generate(k, TokenUser)
           /\ UNCHANGED <<kyc_vars, requests, kyc_documents>>
    \/ \E token \in TokenStrings \cup {UnknownToken} : confirm_email_verification(token)
           /\ UNCHANGED <<kyc_vars, requests, kyc_documents>>
    \/ \E token \in TokenStrings \cup {UnknownToken}, new_password \in NewPasswords :
           password_reset_confirm(token, new_password)
           /\ UNCHANGED <<kyc_vars, requests, kyc_documents>>

SpecTokenRequests == Init /\ [][NextTokenRequests]_vars

----------------------------------------------------------------------------
(* C39 *)

\* the workers whose last call was password_reset_request
AnsweredResets == {w \in Workers : requests[w].op = "password_reset_request"}

\* C39: password_reset_request answers the same whether or not a user has
\* the address, and creates a token and dispatches the email exactly when a
\* user has it.
C39_ResetRequestHidesExistence ==
    /\ [](\A w1, w2 \in AnsweredResets : requests[w1].response = requests[w2].response)
    /\ [][\A w \in Workers, email \in RequestEmails :
            password_reset_request(w, email)
            => /\ tokens' # tokens <=> user_by_email(email) # NULL
               /\ requests'[w].email_dispatched <=> user_by_email(email) # NULL
        ]_vars

----------------------------------------------------------------------------
(* C40 *)

\* C40: with tokens generated with the default expiry of 24 hours and the
\* sweep run with its default age of 48 hours, every token the sweep marks
\* used has expires_at in the past: the sweep marks no token that is still
\* valid.
C40_SweepMarksOnlyExpired ==
    [][expire_old_tokens(SweepHours)
          => \A token \in DOMAIN tokens :
                 (~tokens[token].is_used /\ tokens'[token].is_used)
                 => /\ tokens[token].expires_at < now
                    /\ ~is_valid(tokens[token], now)
      ]_vars

\* the sweep marked the password token, which was never redeemed, 25 hours or
\* more after it expired
C40_Witness ==
    /\ "p1" \in DOMAIN tokens
    /\ tokens["p1"].is_used
    /\ password[TokenUser] = InitialPassword
    /\ now - tokens["p1"].created_at > SweepHours
    /\ tokens["p1"].expires_at = tokens["p1"].created_at + ExpiryHours

====
